---- MODULE Spec2Model ----
(***************************************************************************)
(* Model of the recipe search screen of src/App.tsx: the App component's   *)
(* state (recipes, status, errorMessage, query, refreshing,                 *)
(* selectedRecipe and the two refs), its effects (initial load, debounced  *)
(* search), its handlers (onChangeText, onRefresh, "Try again", card       *)
(* press, modal close), the asynchronous continuations of loadRecipes /    *)
(* fetchAndTrack, and the pure mapMealToRecipe and preparationSteps.       *)
(*                                                                         *)
(* Strings are sequences of characters (one-character TLA+ strings), so    *)
(* that trim and split are computed, not assumed; the fixed text of an     *)
(* error message is kept as one piece.  A JavaScript value that may be     *)
(* null or undefined is a tagged record [t, s].                            *)
(***************************************************************************)
EXTENDS Integers, Sequences, FiniteSets, TLC

\* ------------------------------------------------------------------------
\* Bounds of the model
\* ------------------------------------------------------------------------

\* Number of user actions a behaviour may take: query-text changes, pulls to
\* refresh and presses of "Try again".  Every dispatch but the initial one
\* is started by one of them, so at most MaxActions + 1 dispatches start.
MaxActions == 2

\* The debounce delay is divided in this many clock ticks.
TicksPerDelay == 2

\* The longest instruction text enumerated in full.
MaxTextLen == 4

\* ------------------------------------------------------------------------
\* Program constants
\* ------------------------------------------------------------------------

\* setTimeout(..., 450)
DebounceDelay == 450

\* Array.from({ length: 20 }, (_, index) => index + 1)
IngredientSlots == 20

INGREDIENT_RANGE == 1..IngredientSlots

\* ------------------------------------------------------------------------
\* JavaScript values and strings
\* ------------------------------------------------------------------------

JNull == [t |-> "null", s |-> <<>>]

JUndef == [t |-> "undefined", s |-> <<>>]

JStr(s) == [t |-> "string", s |-> s]

\* Truthiness of a string-or-null-or-undefined value.
Truthy(v) == v.t = "string" /\ v.s # <<>>

\* v ?? undefined
OrUndefined(v) == IF v.t = "string" THEN v ELSE JUndef

\* The white space and line terminators String.prototype.trim removes and
\* \s matches.  A character that has no escape in a TLA+ string is written
\* as its JavaScript escape: "\\u00A0" is the one character U+00A0.
IsWhitespace(c) ==
  c \in {"\t", "\n", "\\u000B", "\f", "\r", " ", "\\u00A0", "\\u1680",
         "\\u2000", "\\u2001", "\\u2002", "\\u2003", "\\u2004", "\\u2005",
         "\\u2006", "\\u2007", "\\u2008", "\\u2009", "\\u200A", "\\u2028",
         "\\u2029", "\\u202F", "\\u205F", "\\u3000", "\\uFEFF"}

RECURSIVE TrimStart(_)
TrimStart(s) ==
  IF s # <<>> /\ IsWhitespace(Head(s)) THEN TrimStart(Tail(s)) ELSE s

RECURSIVE TrimEnd(_)
TrimEnd(s) ==
  IF s # <<>> /\ IsWhitespace(s[Len(s)])
  THEN TrimEnd(SubSeq(s, 1, Len(s) - 1))
  ELSE s

\* String.prototype.trim
Trim(s) == TrimEnd(TrimStart(s))

\* String.prototype.split(sep) for a one-character separator: the pieces
\* between the separators, empty pieces included.
RECURSIVE SplitAcc(_, _, _)
SplitAcc(s, sep, cur) ==
  IF s = <<>> THEN <<cur>>
  ELSE IF Head(s) = sep THEN <<cur>> \o SplitAcc(Tail(s), sep, <<>>)
  ELSE SplitAcc(Tail(s), sep, Append(cur, Head(s)))

Split(s, sep) == SplitAcc(s, sep, <<>>)

\* Array.prototype.filter(Boolean) on an array of strings.
RECURSIVE FilterNonEmpty(_)
FilterNonEmpty(xs) ==
  IF xs = <<>> THEN <<>>
  ELSE IF Head(xs) # <<>> THEN <<Head(xs)>> \o FilterNonEmpty(Tail(xs))
  ELSE FilterNonEmpty(Tail(xs))

\* The decimal digits of a natural number, as a string.
Digit(d) == <<"0", "1", "2", "3", "4", "5", "6", "7", "8", "9">>[d + 1]

RECURSIVE NumberToString(_)
NumberToString(n) ==
  IF n < 10 THEN <<Digit(n)>>
  ELSE Append(NumberToString(n \div 10), Digit(n % 10))

\* ------------------------------------------------------------------------
\* mapMealToRecipe
\* ------------------------------------------------------------------------

\* A callback that prepends every non-empty measure, "0" included.
IngredientEntryKeepsZero(meal, position) ==
  LET ingredient == meal.strIngredient[position]
      measure == meal.strMeasure[position]
  IN  IF ~Truthy(ingredient) \/ Trim(ingredient.s) = <<>>
      THEN <<>>
      ELSE LET cleanIngredient == Trim(ingredient.s)
               cleanMeasure ==
                 IF measure.t = "string" THEN JStr(Trim(measure.s)) ELSE JUndef
           IN  IF Truthy(cleanMeasure)
               THEN cleanMeasure.s \o <<" ">> \o cleanIngredient
               ELSE cleanIngredient

\* One position of INGREDIENT_RANGE.map: the entry for the position, or
\* <<>> for the null the callback returns (filter(Boolean) drops both a
\* null and an empty string).
IngredientEntry(meal, position) ==
  LET ingredient == meal.strIngredient[position]
      measure == meal.strMeasure[position]
  IN  IF ~Truthy(ingredient) \/ Trim(ingredient.s) = <<>>
      THEN <<>>
      ELSE LET cleanIngredient == Trim(ingredient.s)
               cleanMeasure ==
                 IF measure.t = "string" THEN JStr(Trim(measure.s)) ELSE JUndef
           IN  IF Truthy(cleanMeasure) /\ cleanMeasure.s # <<"0">>
               THEN cleanMeasure.s \o <<" ">> \o cleanIngredient
               ELSE cleanIngredient

MealIngredients(meal) ==
  FilterNonEmpty([position \in INGREDIENT_RANGE |-> IngredientEntry(meal, position)])

\* meal.strTags?.split(",").map((tag) => tag.trim()).filter(Boolean)
MealTags(meal) ==
  IF meal.strTags.t # "string"
  THEN [t |-> "undefined", items |-> <<>>]
  ELSE LET pieces == Split(meal.strTags.s, ",")
       IN  [t |-> "array",
            items |-> FilterNonEmpty([i \in 1..Len(pieces) |-> Trim(pieces[i])])]

mapMealToRecipe(meal) ==
  [id |-> meal.idMeal,
   name |-> meal.strMeal,
   category |-> OrUndefined(meal.strCategory),
   area |-> OrUndefined(meal.strArea),
   instructions |-> OrUndefined(meal.strInstructions),
   ingredients |-> MealIngredients(meal),
   image |-> OrUndefined(meal.strMealThumb),
   tags |-> MealTags(meal),
   source |-> OrUndefined(meal.strSource)]

\* meals.map(mapMealToRecipe), for an array of meal objects.
MapMeals(items) == [i \in 1..Len(items) |-> mapMealToRecipe(items[i].meal)]

\* ------------------------------------------------------------------------
\* preparationSteps
\* ------------------------------------------------------------------------

IsDigit(c) == c \in {"0", "1", "2", "3", "4", "5", "6", "7", "8", "9"}

\* \n+ : the text after the line feeds it starts with.
RECURSIVE SkipLineFeeds(_)
SkipLineFeeds(s) ==
  IF s # <<>> /\ Head(s) = "\n" THEN SkipLineFeeds(Tail(s)) ELSE s

\* String.prototype.split(/\r?\n+/): a separator is an optional carriage
\* return and the line feeds after it; a carriage return that no line feed
\* follows is no separator.
RECURSIVE SplitLinesAcc(_, _)
SplitLinesAcc(s, cur) ==
  IF s = <<>> THEN <<cur>>
  ELSE IF Head(s) = "\n"
       THEN <<cur>> \o SplitLinesAcc(SkipLineFeeds(Tail(s)), <<>>)
  ELSE IF Head(s) = "\r" /\ Len(s) >= 2 /\ s[2] = "\n"
       THEN <<cur>> \o SplitLinesAcc(SkipLineFeeds(Tail(Tail(s))), <<>>)
  ELSE SplitLinesAcc(Tail(s), Append(cur, Head(s)))

SplitLines(s) == SplitLinesAcc(s, <<>>)

\* \d+ : the text after the digits it starts with.
RECURSIVE SkipDigits(_)
SkipDigits(s) ==
  IF s # <<>> /\ IsDigit(Head(s)) THEN SkipDigits(Tail(s)) ELSE s

\* A replace that knows the marker "1." only, not "1)".
StripMarkerDotOnly(step) ==
  LET rest == SkipDigits(step)
  IN  IF rest # step /\ rest # <<>> /\ Head(rest) = "."
      THEN TrimStart(Tail(rest))
      ELSE step

\* step.replace(/^\d+[).]\s*/, "")
StripMarker(step) ==
  LET rest == SkipDigits(step)
  IN  IF rest # step /\ rest # <<>> /\ Head(rest) \in {")", "."}
      THEN TrimStart(Tail(rest))
      ELSE step

\* The body of the preparationSteps memo, for the value of
\* selectedRecipe?.instructions.
Segment(instructions) ==
  IF ~Truthy(instructions) THEN <<>>
  ELSE LET pieces == SplitLines(instructions.s)
       IN  FilterNonEmpty([i \in 1..Len(pieces) |-> Trim(StripMarker(pieces[i]))])

\* ------------------------------------------------------------------------
\* What the transport can answer
\* ------------------------------------------------------------------------

\* The 20 strIngredientN / strMeasureN fields: the given values, then null.
Slots(values) ==
  [position \in INGREDIENT_RANGE |->
     IF position <= Len(values) THEN values[position] ELSE JNull]

MealA ==
  [idMeal |-> JStr(<<"5", "2">>),
   strMeal |-> JStr(<<"P", "i", "e">>),
   strCategory |-> JStr(<<"D">>),
   strArea |-> JNull,
   strInstructions |-> JStr(<<"1", ".", " ", "M", "i", "x", "\n", "2", ")", "B", "a", "k", "e">>),
   strMealThumb |-> JNull,
   strTags |-> JStr(<<"a", ",", " ", ",", " ", "b">>),
   strSource |-> JNull,
   strIngredient |-> Slots(<<JStr(<<"S", "a", "l", "t">>), JStr(<<" ">>),
                             JStr(<<"F", "l", "o", "u", "r", " ">>), JStr(<<>>),
                             JStr(<<"E", "g", "g">>)>>),
   strMeasure |-> Slots(<<JStr(<<"0">>), JStr(<<"1", " ", "c", "u", "p">>),
                          JStr(<<" ", "2", "0", "0", "g">>), JStr(<<"1">>),
                          JStr(<<" ">>)>>)]

MealB ==
  [idMeal |-> JStr(<<>>),
   strMeal |-> JStr(<<"T", "e", "a">>),
   strCategory |-> JNull,
   strArea |-> JStr(<<"U", "K">>),
   strInstructions |-> JNull,
   strMealThumb |-> JNull,
   strTags |-> JNull,
   strSource |-> JNull,
   strIngredient |-> Slots(<<JStr(<<"T", "e", "a">>)>>),
   strMeasure |-> Slots(<<>>)]

\* An element of the meals array: a meal object, or null.
MealElement(meal) == [t |-> "object", meal |-> meal]

NullElement == [t |-> "null", meal |-> MealB]

\* A response with the given status code.
Response(code) ==
  [kind |-> "response", isError |-> FALSE, name |-> "none", message |-> <<>>,
   status |-> code]

\* How the fetch promise settles: rejected (with an Error or with another
\* value), or resolved with a response that has a status code.
FetchOutcomes ==
  { [kind |-> "reject", isError |-> TRUE, name |-> "TypeError",
     message |-> <<"Network request failed">>, status |-> 0],
    [kind |-> "reject", isError |-> FALSE, name |-> "none",
     message |-> <<>>, status |-> 0],
    Response(200), Response(404), Response(500) }

\* A parsed body whose meals field is of the given type, with the given
\* elements when it is an array.
Payload(meals, items) ==
  [kind |-> "payload", isError |-> FALSE, name |-> "none", message |-> <<>>,
   meals |-> meals, items |-> items]

\* How response.json() settles: rejected with a SyntaxError, or resolved
\* with a payload whose meals field (payload?.meals) is undefined, null, a
\* string or an array.
JsonOutcomes ==
  { [kind |-> "unparseable", isError |-> TRUE, name |-> "SyntaxError",
     message |-> <<"JSON Parse error">>, meals |-> "undefined", items |-> <<>>],
    Payload("undefined", <<>>),
    Payload("null", <<>>),
    Payload("string", <<>>),
    Payload("array", <<MealElement(MealA)>>),
    Payload("array", <<MealElement(MealB), MealElement(MealA)>>),
    Payload("array", <<NullElement>>) }

\* The outcomes the dispatches that overlap are answered with, one per way
\* a dispatch can end: the response is 500 or 200; the body has meals of a
\* wrong type, null or an array.  GatewaySpec answers one dispatch with
\* every outcome.
OverlapFetchOutcomes == {outcome \in FetchOutcomes : outcome.status \in {200, 500}}

OverlapJsonOutcomes ==
  {body \in JsonOutcomes :
     body.kind = "payload" /\ (body.meals \in {"null", "string"} \/ Len(body.items) = 2)}

\* The texts onChangeText can deliver: the empty text, a text with white
\* space around it, and a text that ends with a trail surrogate closing no
\* pair (after a pair that is well formed).
QueryTexts ==
  { <<>>, <<"\f", "a", "\\u00A0">>, <<"\\uD83D", "\\uDE01", "\\uDC01">> }

\* response.ok
ResponseOk(outcome) == outcome.status >= 200 /\ outcome.status <= 299

\* A message that does not say which status it was.
HttpErrorMessageWithoutCode(code) == <<"Unable to reach recipe service">>

\* `Unable to reach recipe service (status ${response.status})`
HttpErrorMessage(code) ==
  <<"Unable to reach recipe service (status ">> \o NumberToString(code) \o <<")">>

MalformedMessage == <<"Recipe data malformed: missing meals array.">>

UnexpectedMessage == <<"Unexpected error while fetching recipes.">>

\* The message of the TypeError mapMealToRecipe throws on a null element.
\* The engine words it: V8, Hermes and JavaScriptCore each have their text.
NullMealMessages ==
  { <<"Cannot read properties of null (reading 'strIngredient1')">>,
    <<"Cannot read property 'strIngredient1' of null">>,
    <<"null is not an object (evaluating 'meal[`strIngredient${position}`]')">> }

\* The message of the URIError encodeURIComponent throws.  The engine words
\* it: V8, JavaScriptCore and Hermes each have their text.
URIErrorMessages ==
  { <<"URI malformed">>,
    <<"String contained an illegal UTF-16 sequence.">>,
    <<"Malformed encodeURI input">> }

\* The code units U+D800..U+DBFF, each of which opens a surrogate pair.
LeadSurrogates ==
  {
    "\\uD800", "\\uD801", "\\uD802", "\\uD803", "\\uD804", "\\uD805",
    "\\uD806", "\\uD807", "\\uD808", "\\uD809", "\\uD80A", "\\uD80B",
    "\\uD80C", "\\uD80D", "\\uD80E", "\\uD80F", "\\uD810", "\\uD811",
    "\\uD812", "\\uD813", "\\uD814", "\\uD815", "\\uD816", "\\uD817",
    "\\uD818", "\\uD819", "\\uD81A", "\\uD81B", "\\uD81C", "\\uD81D",
    "\\uD81E", "\\uD81F", "\\uD820", "\\uD821", "\\uD822", "\\uD823",
    "\\uD824", "\\uD825", "\\uD826", "\\uD827", "\\uD828", "\\uD829",
    "\\uD82A", "\\uD82B", "\\uD82C", "\\uD82D", "\\uD82E", "\\uD82F",
    "\\uD830", "\\uD831", "\\uD832", "\\uD833", "\\uD834", "\\uD835",
    "\\uD836", "\\uD837", "\\uD838", "\\uD839", "\\uD83A", "\\uD83B",
    "\\uD83C", "\\uD83D", "\\uD83E", "\\uD83F", "\\uD840", "\\uD841",
    "\\uD842", "\\uD843", "\\uD844", "\\uD845", "\\uD846", "\\uD847",
    "\\uD848", "\\uD849", "\\uD84A", "\\uD84B", "\\uD84C", "\\uD84D",
    "\\uD84E", "\\uD84F", "\\uD850", "\\uD851", "\\uD852", "\\uD853",
    "\\uD854", "\\uD855", "\\uD856", "\\uD857", "\\uD858", "\\uD859",
    "\\uD85A", "\\uD85B", "\\uD85C", "\\uD85D", "\\uD85E", "\\uD85F",
    "\\uD860", "\\uD861", "\\uD862", "\\uD863", "\\uD864", "\\uD865",
    "\\uD866", "\\uD867", "\\uD868", "\\uD869", "\\uD86A", "\\uD86B",
    "\\uD86C", "\\uD86D", "\\uD86E", "\\uD86F", "\\uD870", "\\uD871",
    "\\uD872", "\\uD873", "\\uD874", "\\uD875", "\\uD876", "\\uD877",
    "\\uD878", "\\uD879", "\\uD87A", "\\uD87B", "\\uD87C", "\\uD87D",
    "\\uD87E", "\\uD87F", "\\uD880", "\\uD881", "\\uD882", "\\uD883",
    "\\uD884", "\\uD885", "\\uD886", "\\uD887", "\\uD888", "\\uD889",
    "\\uD88A", "\\uD88B", "\\uD88C", "\\uD88D", "\\uD88E", "\\uD88F",
    "\\uD890", "\\uD891", "\\uD892", "\\uD893", "\\uD894", "\\uD895",
    "\\uD896", "\\uD897", "\\uD898", "\\uD899", "\\uD89A", "\\uD89B",
    "\\uD89C", "\\uD89D", "\\uD89E", "\\uD89F", "\\uD8A0", "\\uD8A1",
    "\\uD8A2", "\\uD8A3", "\\uD8A4", "\\uD8A5", "\\uD8A6", "\\uD8A7",
    "\\uD8A8", "\\uD8A9", "\\uD8AA", "\\uD8AB", "\\uD8AC", "\\uD8AD",
    "\\uD8AE", "\\uD8AF", "\\uD8B0", "\\uD8B1", "\\uD8B2", "\\uD8B3",
    "\\uD8B4", "\\uD8B5", "\\uD8B6", "\\uD8B7", "\\uD8B8", "\\uD8B9",
    "\\uD8BA", "\\uD8BB", "\\uD8BC", "\\uD8BD", "\\uD8BE", "\\uD8BF",
    "\\uD8C0", "\\uD8C1", "\\uD8C2", "\\uD8C3", "\\uD8C4", "\\uD8C5",
    "\\uD8C6", "\\uD8C7", "\\uD8C8", "\\uD8C9", "\\uD8CA", "\\uD8CB",
    "\\uD8CC", "\\uD8CD", "\\uD8CE", "\\uD8CF", "\\uD8D0", "\\uD8D1",
    "\\uD8D2", "\\uD8D3", "\\uD8D4", "\\uD8D5", "\\uD8D6", "\\uD8D7",
    "\\uD8D8", "\\uD8D9", "\\uD8DA", "\\uD8DB", "\\uD8DC", "\\uD8DD",
    "\\uD8DE", "\\uD8DF", "\\uD8E0", "\\uD8E1", "\\uD8E2", "\\uD8E3",
    "\\uD8E4", "\\uD8E5", "\\uD8E6", "\\uD8E7", "\\uD8E8", "\\uD8E9",
    "\\uD8EA", "\\uD8EB", "\\uD8EC", "\\uD8ED", "\\uD8EE", "\\uD8EF",
    "\\uD8F0", "\\uD8F1", "\\uD8F2", "\\uD8F3", "\\uD8F4", "\\uD8F5",
    "\\uD8F6", "\\uD8F7", "\\uD8F8", "\\uD8F9", "\\uD8FA", "\\uD8FB",
    "\\uD8FC", "\\uD8FD", "\\uD8FE", "\\uD8FF", "\\uD900", "\\uD901",
    "\\uD902", "\\uD903", "\\uD904", "\\uD905", "\\uD906", "\\uD907",
    "\\uD908", "\\uD909", "\\uD90A", "\\uD90B", "\\uD90C", "\\uD90D",
    "\\uD90E", "\\uD90F", "\\uD910", "\\uD911", "\\uD912", "\\uD913",
    "\\uD914", "\\uD915", "\\uD916", "\\uD917", "\\uD918", "\\uD919",
    "\\uD91A", "\\uD91B", "\\uD91C", "\\uD91D", "\\uD91E", "\\uD91F",
    "\\uD920", "\\uD921", "\\uD922", "\\uD923", "\\uD924", "\\uD925",
    "\\uD926", "\\uD927", "\\uD928", "\\uD929", "\\uD92A", "\\uD92B",
    "\\uD92C", "\\uD92D", "\\uD92E", "\\uD92F", "\\uD930", "\\uD931",
    "\\uD932", "\\uD933", "\\uD934", "\\uD935", "\\uD936", "\\uD937",
    "\\uD938", "\\uD939", "\\uD93A", "\\uD93B", "\\uD93C", "\\uD93D",
    "\\uD93E", "\\uD93F", "\\uD940", "\\uD941", "\\uD942", "\\uD943",
    "\\uD944", "\\uD945", "\\uD946", "\\uD947", "\\uD948", "\\uD949",
    "\\uD94A", "\\uD94B", "\\uD94C", "\\uD94D", "\\uD94E", "\\uD94F",
    "\\uD950", "\\uD951", "\\uD952", "\\uD953", "\\uD954", "\\uD955",
    "\\uD956", "\\uD957", "\\uD958", "\\uD959", "\\uD95A", "\\uD95B",
    "\\uD95C", "\\uD95D", "\\uD95E", "\\uD95F", "\\uD960", "\\uD961",
    "\\uD962", "\\uD963", "\\uD964", "\\uD965", "\\uD966", "\\uD967",
    "\\uD968", "\\uD969", "\\uD96A", "\\uD96B", "\\uD96C", "\\uD96D",
    "\\uD96E", "\\uD96F", "\\uD970", "\\uD971", "\\uD972", "\\uD973",
    "\\uD974", "\\uD975", "\\uD976", "\\uD977", "\\uD978", "\\uD979",
    "\\uD97A", "\\uD97B", "\\uD97C", "\\uD97D", "\\uD97E", "\\uD97F",
    "\\uD980", "\\uD981", "\\uD982", "\\uD983", "\\uD984", "\\uD985",
    "\\uD986", "\\uD987", "\\uD988", "\\uD989", "\\uD98A", "\\uD98B",
    "\\uD98C", "\\uD98D", "\\uD98E", "\\uD98F", "\\uD990", "\\uD991",
    "\\uD992", "\\uD993", "\\uD994", "\\uD995", "\\uD996", "\\uD997",
    "\\uD998", "\\uD999", "\\uD99A", "\\uD99B", "\\uD99C", "\\uD99D",
    "\\uD99E", "\\uD99F", "\\uD9A0", "\\uD9A1", "\\uD9A2", "\\uD9A3",
    "\\uD9A4", "\\uD9A5", "\\uD9A6", "\\uD9A7", "\\uD9A8", "\\uD9A9",
    "\\uD9AA", "\\uD9AB", "\\uD9AC", "\\uD9AD", "\\uD9AE", "\\uD9AF",
    "\\uD9B0", "\\uD9B1", "\\uD9B2", "\\uD9B3", "\\uD9B4", "\\uD9B5",
    "\\uD9B6", "\\uD9B7", "\\uD9B8", "\\uD9B9", "\\uD9BA", "\\uD9BB",
    "\\uD9BC", "\\uD9BD", "\\uD9BE", "\\uD9BF", "\\uD9C0", "\\uD9C1",
    "\\uD9C2", "\\uD9C3", "\\uD9C4", "\\uD9C5", "\\uD9C6", "\\uD9C7",
    "\\uD9C8", "\\uD9C9", "\\uD9CA", "\\uD9CB", "\\uD9CC", "\\uD9CD",
    "\\uD9CE", "\\uD9CF", "\\uD9D0", "\\uD9D1", "\\uD9D2", "\\uD9D3",
    "\\uD9D4", "\\uD9D5", "\\uD9D6", "\\uD9D7", "\\uD9D8", "\\uD9D9",
    "\\uD9DA", "\\uD9DB", "\\uD9DC", "\\uD9DD", "\\uD9DE", "\\uD9DF",
    "\\uD9E0", "\\uD9E1", "\\uD9E2", "\\uD9E3", "\\uD9E4", "\\uD9E5",
    "\\uD9E6", "\\uD9E7", "\\uD9E8", "\\uD9E9", "\\uD9EA", "\\uD9EB",
    "\\uD9EC", "\\uD9ED", "\\uD9EE", "\\uD9EF", "\\uD9F0", "\\uD9F1",
    "\\uD9F2", "\\uD9F3", "\\uD9F4", "\\uD9F5", "\\uD9F6", "\\uD9F7",
    "\\uD9F8", "\\uD9F9", "\\uD9FA", "\\uD9FB", "\\uD9FC", "\\uD9FD",
    "\\uD9FE", "\\uD9FF", "\\uDA00", "\\uDA01", "\\uDA02", "\\uDA03",
    "\\uDA04", "\\uDA05", "\\uDA06", "\\uDA07", "\\uDA08", "\\uDA09",
    "\\uDA0A", "\\uDA0B", "\\uDA0C", "\\uDA0D", "\\uDA0E", "\\uDA0F",
    "\\uDA10", "\\uDA11", "\\uDA12", "\\uDA13", "\\uDA14", "\\uDA15",
    "\\uDA16", "\\uDA17", "\\uDA18", "\\uDA19", "\\uDA1A", "\\uDA1B",
    "\\uDA1C", "\\uDA1D", "\\uDA1E", "\\uDA1F", "\\uDA20", "\\uDA21",
    "\\uDA22", "\\uDA23", "\\uDA24", "\\uDA25", "\\uDA26", "\\uDA27",
    "\\uDA28", "\\uDA29", "\\uDA2A", "\\uDA2B", "\\uDA2C", "\\uDA2D",
    "\\uDA2E", "\\uDA2F", "\\uDA30", "\\uDA31", "\\uDA32", "\\uDA33",
    "\\uDA34", "\\uDA35", "\\uDA36", "\\uDA37", "\\uDA38", "\\uDA39",
    "\\uDA3A", "\\uDA3B", "\\uDA3C", "\\uDA3D", "\\uDA3E", "\\uDA3F",
    "\\uDA40", "\\uDA41", "\\uDA42", "\\uDA43", "\\uDA44", "\\uDA45",
    "\\uDA46", "\\uDA47", "\\uDA48", "\\uDA49", "\\uDA4A", "\\uDA4B",
    "\\uDA4C", "\\uDA4D", "\\uDA4E", "\\uDA4F", "\\uDA50", "\\uDA51",
    "\\uDA52", "\\uDA53", "\\uDA54", "\\uDA55", "\\uDA56", "\\uDA57",
    "\\uDA58", "\\uDA59", "\\uDA5A", "\\uDA5B", "\\uDA5C", "\\uDA5D",
    "\\uDA5E", "\\uDA5F", "\\uDA60", "\\uDA61", "\\uDA62", "\\uDA63",
    "\\uDA64", "\\uDA65", "\\uDA66", "\\uDA67", "\\uDA68", "\\uDA69",
    "\\uDA6A", "\\uDA6B", "\\uDA6C", "\\uDA6D", "\\uDA6E", "\\uDA6F",
    "\\uDA70", "\\uDA71", "\\uDA72", "\\uDA73", "\\uDA74", "\\uDA75",
    "\\uDA76", "\\uDA77", "\\uDA78", "\\uDA79", "\\uDA7A", "\\uDA7B",
    "\\uDA7C", "\\uDA7D", "\\uDA7E", "\\uDA7F", "\\uDA80", "\\uDA81",
    "\\uDA82", "\\uDA83", "\\uDA84", "\\uDA85", "\\uDA86", "\\uDA87",
    "\\uDA88", "\\uDA89", "\\uDA8A", "\\uDA8B", "\\uDA8C", "\\uDA8D",
    "\\uDA8E", "\\uDA8F", "\\uDA90", "\\uDA91", "\\uDA92", "\\uDA93",
    "\\uDA94", "\\uDA95", "\\uDA96", "\\uDA97", "\\uDA98", "\\uDA99",
    "\\uDA9A", "\\uDA9B", "\\uDA9C", "\\uDA9D", "\\uDA9E", "\\uDA9F",
    "\\uDAA0", "\\uDAA1", "\\uDAA2", "\\uDAA3", "\\uDAA4", "\\uDAA5",
    "\\uDAA6", "\\uDAA7", "\\uDAA8", "\\uDAA9", "\\uDAAA", "\\uDAAB",
    "\\uDAAC", "\\uDAAD", "\\uDAAE", "\\uDAAF", "\\uDAB0", "\\uDAB1",
    "\\uDAB2", "\\uDAB3", "\\uDAB4", "\\uDAB5", "\\uDAB6", "\\uDAB7",
    "\\uDAB8", "\\uDAB9", "\\uDABA", "\\uDABB", "\\uDABC", "\\uDABD",
    "\\uDABE", "\\uDABF", "\\uDAC0", "\\uDAC1", "\\uDAC2", "\\uDAC3",
    "\\uDAC4", "\\uDAC5", "\\uDAC6", "\\uDAC7", "\\uDAC8", "\\uDAC9",
    "\\uDACA", "\\uDACB", "\\uDACC", "\\uDACD", "\\uDACE", "\\uDACF",
    "\\uDAD0", "\\uDAD1", "\\uDAD2", "\\uDAD3", "\\uDAD4", "\\uDAD5",
    "\\uDAD6", "\\uDAD7", "\\uDAD8", "\\uDAD9", "\\uDADA", "\\uDADB",
    "\\uDADC", "\\uDADD", "\\uDADE", "\\uDADF", "\\uDAE0", "\\uDAE1",
    "\\uDAE2", "\\uDAE3", "\\uDAE4", "\\uDAE5", "\\uDAE6", "\\uDAE7",
    "\\uDAE8", "\\uDAE9", "\\uDAEA", "\\uDAEB", "\\uDAEC", "\\uDAED",
    "\\uDAEE", "\\uDAEF", "\\uDAF0", "\\uDAF1", "\\uDAF2", "\\uDAF3",
    "\\uDAF4", "\\uDAF5", "\\uDAF6", "\\uDAF7", "\\uDAF8", "\\uDAF9",
    "\\uDAFA", "\\uDAFB", "\\uDAFC", "\\uDAFD", "\\uDAFE", "\\uDAFF",
    "\\uDB00", "\\uDB01", "\\uDB02", "\\uDB03", "\\uDB04", "\\uDB05",
    "\\uDB06", "\\uDB07", "\\uDB08", "\\uDB09", "\\uDB0A", "\\uDB0B",
    "\\uDB0C", "\\uDB0D", "\\uDB0E", "\\uDB0F", "\\uDB10", "\\uDB11",
    "\\uDB12", "\\uDB13", "\\uDB14", "\\uDB15", "\\uDB16", "\\uDB17",
    "\\uDB18", "\\uDB19", "\\uDB1A", "\\uDB1B", "\\uDB1C", "\\uDB1D",
    "\\uDB1E", "\\uDB1F", "\\uDB20", "\\uDB21", "\\uDB22", "\\uDB23",
    "\\uDB24", "\\uDB25", "\\uDB26", "\\uDB27", "\\uDB28", "\\uDB29",
    "\\uDB2A", "\\uDB2B", "\\uDB2C", "\\uDB2D", "\\uDB2E", "\\uDB2F",
    "\\uDB30", "\\uDB31", "\\uDB32", "\\uDB33", "\\uDB34", "\\uDB35",
    "\\uDB36", "\\uDB37", "\\uDB38", "\\uDB39", "\\uDB3A", "\\uDB3B",
    "\\uDB3C", "\\uDB3D", "\\uDB3E", "\\uDB3F", "\\uDB40", "\\uDB41",
    "\\uDB42", "\\uDB43", "\\uDB44", "\\uDB45", "\\uDB46", "\\uDB47",
    "\\uDB48", "\\uDB49", "\\uDB4A", "\\uDB4B", "\\uDB4C", "\\uDB4D",
    "\\uDB4E", "\\uDB4F", "\\uDB50", "\\uDB51", "\\uDB52", "\\uDB53",
    "\\uDB54", "\\uDB55", "\\uDB56", "\\uDB57", "\\uDB58", "\\uDB59",
    "\\uDB5A", "\\uDB5B", "\\uDB5C", "\\uDB5D", "\\uDB5E", "\\uDB5F",
    "\\uDB60", "\\uDB61", "\\uDB62", "\\uDB63", "\\uDB64", "\\uDB65",
    "\\uDB66", "\\uDB67", "\\uDB68", "\\uDB69", "\\uDB6A", "\\uDB6B",
    "\\uDB6C", "\\uDB6D", "\\uDB6E", "\\uDB6F", "\\uDB70", "\\uDB71",
    "\\uDB72", "\\uDB73", "\\uDB74", "\\uDB75", "\\uDB76", "\\uDB77",
    "\\uDB78", "\\uDB79", "\\uDB7A", "\\uDB7B", "\\uDB7C", "\\uDB7D",
    "\\uDB7E", "\\uDB7F", "\\uDB80", "\\uDB81", "\\uDB82", "\\uDB83",
    "\\uDB84", "\\uDB85", "\\uDB86", "\\uDB87", "\\uDB88", "\\uDB89",
    "\\uDB8A", "\\uDB8B", "\\uDB8C", "\\uDB8D", "\\uDB8E", "\\uDB8F",
    "\\uDB90", "\\uDB91", "\\uDB92", "\\uDB93", "\\uDB94", "\\uDB95",
    "\\uDB96", "\\uDB97", "\\uDB98", "\\uDB99", "\\uDB9A", "\\uDB9B",
    "\\uDB9C", "\\uDB9D", "\\uDB9E", "\\uDB9F", "\\uDBA0", "\\uDBA1",
    "\\uDBA2", "\\uDBA3", "\\uDBA4", "\\uDBA5", "\\uDBA6", "\\uDBA7",
    "\\uDBA8", "\\uDBA9", "\\uDBAA", "\\uDBAB", "\\uDBAC", "\\uDBAD",
    "\\uDBAE", "\\uDBAF", "\\uDBB0", "\\uDBB1", "\\uDBB2", "\\uDBB3",
    "\\uDBB4", "\\uDBB5", "\\uDBB6", "\\uDBB7", "\\uDBB8", "\\uDBB9",
    "\\uDBBA", "\\uDBBB", "\\uDBBC", "\\uDBBD", "\\uDBBE", "\\uDBBF",
    "\\uDBC0", "\\uDBC1", "\\uDBC2", "\\uDBC3", "\\uDBC4", "\\uDBC5",
    "\\uDBC6", "\\uDBC7", "\\uDBC8", "\\uDBC9", "\\uDBCA", "\\uDBCB",
    "\\uDBCC", "\\uDBCD", "\\uDBCE", "\\uDBCF", "\\uDBD0", "\\uDBD1",
    "\\uDBD2", "\\uDBD3", "\\uDBD4", "\\uDBD5", "\\uDBD6", "\\uDBD7",
    "\\uDBD8", "\\uDBD9", "\\uDBDA", "\\uDBDB", "\\uDBDC", "\\uDBDD",
    "\\uDBDE", "\\uDBDF", "\\uDBE0", "\\uDBE1", "\\uDBE2", "\\uDBE3",
    "\\uDBE4", "\\uDBE5", "\\uDBE6", "\\uDBE7", "\\uDBE8", "\\uDBE9",
    "\\uDBEA", "\\uDBEB", "\\uDBEC", "\\uDBED", "\\uDBEE", "\\uDBEF",
    "\\uDBF0", "\\uDBF1", "\\uDBF2", "\\uDBF3", "\\uDBF4", "\\uDBF5",
    "\\uDBF6", "\\uDBF7", "\\uDBF8", "\\uDBF9", "\\uDBFA", "\\uDBFB",
    "\\uDBFC", "\\uDBFD", "\\uDBFE", "\\uDBFF" }

\* The code units U+DC00..U+DFFF, each of which closes a surrogate pair.
TrailSurrogates ==
  {
    "\\uDC00", "\\uDC01", "\\uDC02", "\\uDC03", "\\uDC04", "\\uDC05",
    "\\uDC06", "\\uDC07", "\\uDC08", "\\uDC09", "\\uDC0A", "\\uDC0B",
    "\\uDC0C", "\\uDC0D", "\\uDC0E", "\\uDC0F", "\\uDC10", "\\uDC11",
    "\\uDC12", "\\uDC13", "\\uDC14", "\\uDC15", "\\uDC16", "\\uDC17",
    "\\uDC18", "\\uDC19", "\\uDC1A", "\\uDC1B", "\\uDC1C", "\\uDC1D",
    "\\uDC1E", "\\uDC1F", "\\uDC20", "\\uDC21", "\\uDC22", "\\uDC23",
    "\\uDC24", "\\uDC25", "\\uDC26", "\\uDC27", "\\uDC28", "\\uDC29",
    "\\uDC2A", "\\uDC2B", "\\uDC2C", "\\uDC2D", "\\uDC2E", "\\uDC2F",
    "\\uDC30", "\\uDC31", "\\uDC32", "\\uDC33", "\\uDC34", "\\uDC35",
    "\\uDC36", "\\uDC37", "\\uDC38", "\\uDC39", "\\uDC3A", "\\uDC3B",
    "\\uDC3C", "\\uDC3D", "\\uDC3E", "\\uDC3F", "\\uDC40", "\\uDC41",
    "\\uDC42", "\\uDC43", "\\uDC44", "\\uDC45", "\\uDC46", "\\uDC47",
    "\\uDC48", "\\uDC49", "\\uDC4A", "\\uDC4B", "\\uDC4C", "\\uDC4D",
    "\\uDC4E", "\\uDC4F", "\\uDC50", "\\uDC51", "\\uDC52", "\\uDC53",
    "\\uDC54", "\\uDC55", "\\uDC56", "\\uDC57", "\\uDC58", "\\uDC59",
    "\\uDC5A", "\\uDC5B", "\\uDC5C", "\\uDC5D", "\\uDC5E", "\\uDC5F",
    "\\uDC60", "\\uDC61", "\\uDC62", "\\uDC63", "\\uDC64", "\\uDC65",
    "\\uDC66", "\\uDC67", "\\uDC68", "\\uDC69", "\\uDC6A", "\\uDC6B",
    "\\uDC6C", "\\uDC6D", "\\uDC6E", "\\uDC6F", "\\uDC70", "\\uDC71",
    "\\uDC72", "\\uDC73", "\\uDC74", "\\uDC75", "\\uDC76", "\\uDC77",
    "\\uDC78", "\\uDC79", "\\uDC7A", "\\uDC7B", "\\uDC7C", "\\uDC7D",
    "\\uDC7E", "\\uDC7F", "\\uDC80", "\\uDC81", "\\uDC82", "\\uDC83",
    "\\uDC84", "\\uDC85", "\\uDC86", "\\uDC87", "\\uDC88", "\\uDC89",
    "\\uDC8A", "\\uDC8B", "\\uDC8C", "\\uDC8D", "\\uDC8E", "\\uDC8F",
    "\\uDC90", "\\uDC91", "\\uDC92", "\\uDC93", "\\uDC94", "\\uDC95",
    "\\uDC96", "\\uDC97", "\\uDC98", "\\uDC99", "\\uDC9A", "\\uDC9B",
    "\\uDC9C", "\\uDC9D", "\\uDC9E", "\\uDC9F", "\\uDCA0", "\\uDCA1",
    "\\uDCA2", "\\uDCA3", "\\uDCA4", "\\uDCA5", "\\uDCA6", "\\uDCA7",
    "\\uDCA8", "\\uDCA9", "\\uDCAA", "\\uDCAB", "\\uDCAC", "\\uDCAD",
    "\\uDCAE", "\\uDCAF", "\\uDCB0", "\\uDCB1", "\\uDCB2", "\\uDCB3",
    "\\uDCB4", "\\uDCB5", "\\uDCB6", "\\uDCB7", "\\uDCB8", "\\uDCB9",
    "\\uDCBA", "\\uDCBB", "\\uDCBC", "\\uDCBD", "\\uDCBE", "\\uDCBF",
    "\\uDCC0", "\\uDCC1", "\\uDCC2", "\\uDCC3", "\\uDCC4", "\\uDCC5",
    "\\uDCC6", "\\uDCC7", "\\uDCC8", "\\uDCC9", "\\uDCCA", "\\uDCCB",
    "\\uDCCC", "\\uDCCD", "\\uDCCE", "\\uDCCF", "\\uDCD0", "\\uDCD1",
    "\\uDCD2", "\\uDCD3", "\\uDCD4", "\\uDCD5", "\\uDCD6", "\\uDCD7",
    "\\uDCD8", "\\uDCD9", "\\uDCDA", "\\uDCDB", "\\uDCDC", "\\uDCDD",
    "\\uDCDE", "\\uDCDF", "\\uDCE0", "\\uDCE1", "\\uDCE2", "\\uDCE3",
    "\\uDCE4", "\\uDCE5", "\\uDCE6", "\\uDCE7", "\\uDCE8", "\\uDCE9",
    "\\uDCEA", "\\uDCEB", "\\uDCEC", "\\uDCED", "\\uDCEE", "\\uDCEF",
    "\\uDCF0", "\\uDCF1", "\\uDCF2", "\\uDCF3", "\\uDCF4", "\\uDCF5",
    "\\uDCF6", "\\uDCF7", "\\uDCF8", "\\uDCF9", "\\uDCFA", "\\uDCFB",
    "\\uDCFC", "\\uDCFD", "\\uDCFE", "\\uDCFF", "\\uDD00", "\\uDD01",
    "\\uDD02", "\\uDD03", "\\uDD04", "\\uDD05", "\\uDD06", "\\uDD07",
    "\\uDD08", "\\uDD09", "\\uDD0A", "\\uDD0B", "\\uDD0C", "\\uDD0D",
    "\\uDD0E", "\\uDD0F", "\\uDD10", "\\uDD11", "\\uDD12", "\\uDD13",
    "\\uDD14", "\\uDD15", "\\uDD16", "\\uDD17", "\\uDD18", "\\uDD19",
    "\\uDD1A", "\\uDD1B", "\\uDD1C", "\\uDD1D", "\\uDD1E", "\\uDD1F",
    "\\uDD20", "\\uDD21", "\\uDD22", "\\uDD23", "\\uDD24", "\\uDD25",
    "\\uDD26", "\\uDD27", "\\uDD28", "\\uDD29", "\\uDD2A", "\\uDD2B",
    "\\uDD2C", "\\uDD2D", "\\uDD2E", "\\uDD2F", "\\uDD30", "\\uDD31",
    "\\uDD32", "\\uDD33", "\\uDD34", "\\uDD35", "\\uDD36", "\\uDD37",
    "\\uDD38", "\\uDD39", "\\uDD3A", "\\uDD3B", "\\uDD3C", "\\uDD3D",
    "\\uDD3E", "\\uDD3F", "\\uDD40", "\\uDD41", "\\uDD42", "\\uDD43",
    "\\uDD44", "\\uDD45", "\\uDD46", "\\uDD47", "\\uDD48", "\\uDD49",
    "\\uDD4A", "\\uDD4B", "\\uDD4C", "\\uDD4D", "\\uDD4E", "\\uDD4F",
    "\\uDD50", "\\uDD51", "\\uDD52", "\\uDD53", "\\uDD54", "\\uDD55",
    "\\uDD56", "\\uDD57", "\\uDD58", "\\uDD59", "\\uDD5A", "\\uDD5B",
    "\\uDD5C", "\\uDD5D", "\\uDD5E", "\\uDD5F", "\\uDD60", "\\uDD61",
    "\\uDD62", "\\uDD63", "\\uDD64", "\\uDD65", "\\uDD66", "\\uDD67",
    "\\uDD68", "\\uDD69", "\\uDD6A", "\\uDD6B", "\\uDD6C", "\\uDD6D",
    "\\uDD6E", "\\uDD6F", "\\uDD70", "\\uDD71", "\\uDD72", "\\uDD73",
    "\\uDD74", "\\uDD75", "\\uDD76", "\\uDD77", "\\uDD78", "\\uDD79",
    "\\uDD7A", "\\uDD7B", "\\uDD7C", "\\uDD7D", "\\uDD7E", "\\uDD7F",
    "\\uDD80", "\\uDD81", "\\uDD82", "\\uDD83", "\\uDD84", "\\uDD85",
    "\\uDD86", "\\uDD87", "\\uDD88", "\\uDD89", "\\uDD8A", "\\uDD8B",
    "\\uDD8C", "\\uDD8D", "\\uDD8E", "\\uDD8F", "\\uDD90", "\\uDD91",
    "\\uDD92", "\\uDD93", "\\uDD94", "\\uDD95", "\\uDD96", "\\uDD97",
    "\\uDD98", "\\uDD99", "\\uDD9A", "\\uDD9B", "\\uDD9C", "\\uDD9D",
    "\\uDD9E", "\\uDD9F", "\\uDDA0", "\\uDDA1", "\\uDDA2", "\\uDDA3",
    "\\uDDA4", "\\uDDA5", "\\uDDA6", "\\uDDA7", "\\uDDA8", "\\uDDA9",
    "\\uDDAA", "\\uDDAB", "\\uDDAC", "\\uDDAD", "\\uDDAE", "\\uDDAF",
    "\\uDDB0", "\\uDDB1", "\\uDDB2", "\\uDDB3", "\\uDDB4", "\\uDDB5",
    "\\uDDB6", "\\uDDB7", "\\uDDB8", "\\uDDB9", "\\uDDBA", "\\uDDBB",
    "\\uDDBC", "\\uDDBD", "\\uDDBE", "\\uDDBF", "\\uDDC0", "\\uDDC1",
    "\\uDDC2", "\\uDDC3", "\\uDDC4", "\\uDDC5", "\\uDDC6", "\\uDDC7",
    "\\uDDC8", "\\uDDC9", "\\uDDCA", "\\uDDCB", "\\uDDCC", "\\uDDCD",
    "\\uDDCE", "\\uDDCF", "\\uDDD0", "\\uDDD1", "\\uDDD2", "\\uDDD3",
    "\\uDDD4", "\\uDDD5", "\\uDDD6", "\\uDDD7", "\\uDDD8", "\\uDDD9",
    "\\uDDDA", "\\uDDDB", "\\uDDDC", "\\uDDDD", "\\uDDDE", "\\uDDDF",
    "\\uDDE0", "\\uDDE1", "\\uDDE2", "\\uDDE3", "\\uDDE4", "\\uDDE5",
    "\\uDDE6", "\\uDDE7", "\\uDDE8", "\\uDDE9", "\\uDDEA", "\\uDDEB",
    "\\uDDEC", "\\uDDED", "\\uDDEE", "\\uDDEF", "\\uDDF0", "\\uDDF1",
    "\\uDDF2", "\\uDDF3", "\\uDDF4", "\\uDDF5", "\\uDDF6", "\\uDDF7",
    "\\uDDF8", "\\uDDF9", "\\uDDFA", "\\uDDFB", "\\uDDFC", "\\uDDFD",
    "\\uDDFE", "\\uDDFF", "\\uDE00", "\\uDE01", "\\uDE02", "\\uDE03",
    "\\uDE04", "\\uDE05", "\\uDE06", "\\uDE07", "\\uDE08", "\\uDE09",
    "\\uDE0A", "\\uDE0B", "\\uDE0C", "\\uDE0D", "\\uDE0E", "\\uDE0F",
    "\\uDE10", "\\uDE11", "\\uDE12", "\\uDE13", "\\uDE14", "\\uDE15",
    "\\uDE16", "\\uDE17", "\\uDE18", "\\uDE19", "\\uDE1A", "\\uDE1B",
    "\\uDE1C", "\\uDE1D", "\\uDE1E", "\\uDE1F", "\\uDE20", "\\uDE21",
    "\\uDE22", "\\uDE23", "\\uDE24", "\\uDE25", "\\uDE26", "\\uDE27",
    "\\uDE28", "\\uDE29", "\\uDE2A", "\\uDE2B", "\\uDE2C", "\\uDE2D",
    "\\uDE2E", "\\uDE2F", "\\uDE30", "\\uDE31", "\\uDE32", "\\uDE33",
    "\\uDE34", "\\uDE35", "\\uDE36", "\\uDE37", "\\uDE38", "\\uDE39",
    "\\uDE3A", "\\uDE3B", "\\uDE3C", "\\uDE3D", "\\uDE3E", "\\uDE3F",
    "\\uDE40", "\\uDE41", "\\uDE42", "\\uDE43", "\\uDE44", "\\uDE45",
    "\\uDE46", "\\uDE47", "\\uDE48", "\\uDE49", "\\uDE4A", "\\uDE4B",
    "\\uDE4C", "\\uDE4D", "\\uDE4E", "\\uDE4F", "\\uDE50", "\\uDE51",
    "\\uDE52", "\\uDE53", "\\uDE54", "\\uDE55", "\\uDE56", "\\uDE57",
    "\\uDE58", "\\uDE59", "\\uDE5A", "\\uDE5B", "\\uDE5C", "\\uDE5D",
    "\\uDE5E", "\\uDE5F", "\\uDE60", "\\uDE61", "\\uDE62", "\\uDE63",
    "\\uDE64", "\\uDE65", "\\uDE66", "\\uDE67", "\\uDE68", "\\uDE69",
    "\\uDE6A", "\\uDE6B", "\\uDE6C", "\\uDE6D", "\\uDE6E", "\\uDE6F",
    "\\uDE70", "\\uDE71", "\\uDE72", "\\uDE73", "\\uDE74", "\\uDE75",
    "\\uDE76", "\\uDE77", "\\uDE78", "\\uDE79", "\\uDE7A", "\\uDE7B",
    "\\uDE7C", "\\uDE7D", "\\uDE7E", "\\uDE7F", "\\uDE80", "\\uDE81",
    "\\uDE82", "\\uDE83", "\\uDE84", "\\uDE85", "\\uDE86", "\\uDE87",
    "\\uDE88", "\\uDE89", "\\uDE8A", "\\uDE8B", "\\uDE8C", "\\uDE8D",
    "\\uDE8E", "\\uDE8F", "\\uDE90", "\\uDE91", "\\uDE92", "\\uDE93",
    "\\uDE94", "\\uDE95", "\\uDE96", "\\uDE97", "\\uDE98", "\\uDE99",
    "\\uDE9A", "\\uDE9B", "\\uDE9C", "\\uDE9D", "\\uDE9E", "\\uDE9F",
    "\\uDEA0", "\\uDEA1", "\\uDEA2", "\\uDEA3", "\\uDEA4", "\\uDEA5",
    "\\uDEA6", "\\uDEA7", "\\uDEA8", "\\uDEA9", "\\uDEAA", "\\uDEAB",
    "\\uDEAC", "\\uDEAD", "\\uDEAE", "\\uDEAF", "\\uDEB0", "\\uDEB1",
    "\\uDEB2", "\\uDEB3", "\\uDEB4", "\\uDEB5", "\\uDEB6", "\\uDEB7",
    "\\uDEB8", "\\uDEB9", "\\uDEBA", "\\uDEBB", "\\uDEBC", "\\uDEBD",
    "\\uDEBE", "\\uDEBF", "\\uDEC0", "\\uDEC1", "\\uDEC2", "\\uDEC3",
    "\\uDEC4", "\\uDEC5", "\\uDEC6", "\\uDEC7", "\\uDEC8", "\\uDEC9",
    "\\uDECA", "\\uDECB", "\\uDECC", "\\uDECD", "\\uDECE", "\\uDECF",
    "\\uDED0", "\\uDED1", "\\uDED2", "\\uDED3", "\\uDED4", "\\uDED5",
    "\\uDED6", "\\uDED7", "\\uDED8", "\\uDED9", "\\uDEDA", "\\uDEDB",
    "\\uDEDC", "\\uDEDD", "\\uDEDE", "\\uDEDF", "\\uDEE0", "\\uDEE1",
    "\\uDEE2", "\\uDEE3", "\\uDEE4", "\\uDEE5", "\\uDEE6", "\\uDEE7",
    "\\uDEE8", "\\uDEE9", "\\uDEEA", "\\uDEEB", "\\uDEEC", "\\uDEED",
    "\\uDEEE", "\\uDEEF", "\\uDEF0", "\\uDEF1", "\\uDEF2", "\\uDEF3",
    "\\uDEF4", "\\uDEF5", "\\uDEF6", "\\uDEF7", "\\uDEF8", "\\uDEF9",
    "\\uDEFA", "\\uDEFB", "\\uDEFC", "\\uDEFD", "\\uDEFE", "\\uDEFF",
    "\\uDF00", "\\uDF01", "\\uDF02", "\\uDF03", "\\uDF04", "\\uDF05",
    "\\uDF06", "\\uDF07", "\\uDF08", "\\uDF09", "\\uDF0A", "\\uDF0B",
    "\\uDF0C", "\\uDF0D", "\\uDF0E", "\\uDF0F", "\\uDF10", "\\uDF11",
    "\\uDF12", "\\uDF13", "\\uDF14", "\\uDF15", "\\uDF16", "\\uDF17",
    "\\uDF18", "\\uDF19", "\\uDF1A", "\\uDF1B", "\\uDF1C", "\\uDF1D",
    "\\uDF1E", "\\uDF1F", "\\uDF20", "\\uDF21", "\\uDF22", "\\uDF23",
    "\\uDF24", "\\uDF25", "\\uDF26", "\\uDF27", "\\uDF28", "\\uDF29",
    "\\uDF2A", "\\uDF2B", "\\uDF2C", "\\uDF2D", "\\uDF2E", "\\uDF2F",
    "\\uDF30", "\\uDF31", "\\uDF32", "\\uDF33", "\\uDF34", "\\uDF35",
    "\\uDF36", "\\uDF37", "\\uDF38", "\\uDF39", "\\uDF3A", "\\uDF3B",
    "\\uDF3C", "\\uDF3D", "\\uDF3E", "\\uDF3F", "\\uDF40", "\\uDF41",
    "\\uDF42", "\\uDF43", "\\uDF44", "\\uDF45", "\\uDF46", "\\uDF47",
    "\\uDF48", "\\uDF49", "\\uDF4A", "\\uDF4B", "\\uDF4C", "\\uDF4D",
    "\\uDF4E", "\\uDF4F", "\\uDF50", "\\uDF51", "\\uDF52", "\\uDF53",
    "\\uDF54", "\\uDF55", "\\uDF56", "\\uDF57", "\\uDF58", "\\uDF59",
    "\\uDF5A", "\\uDF5B", "\\uDF5C", "\\uDF5D", "\\uDF5E", "\\uDF5F",
    "\\uDF60", "\\uDF61", "\\uDF62", "\\uDF63", "\\uDF64", "\\uDF65",
    "\\uDF66", "\\uDF67", "\\uDF68", "\\uDF69", "\\uDF6A", "\\uDF6B",
    "\\uDF6C", "\\uDF6D", "\\uDF6E", "\\uDF6F", "\\uDF70", "\\uDF71",
    "\\uDF72", "\\uDF73", "\\uDF74", "\\uDF75", "\\uDF76", "\\uDF77",
    "\\uDF78", "\\uDF79", "\\uDF7A", "\\uDF7B", "\\uDF7C", "\\uDF7D",
    "\\uDF7E", "\\uDF7F", "\\uDF80", "\\uDF81", "\\uDF82", "\\uDF83",
    "\\uDF84", "\\uDF85", "\\uDF86", "\\uDF87", "\\uDF88", "\\uDF89",
    "\\uDF8A", "\\uDF8B", "\\uDF8C", "\\uDF8D", "\\uDF8E", "\\uDF8F",
    "\\uDF90", "\\uDF91", "\\uDF92", "\\uDF93", "\\uDF94", "\\uDF95",
    "\\uDF96", "\\uDF97", "\\uDF98", "\\uDF99", "\\uDF9A", "\\uDF9B",
    "\\uDF9C", "\\uDF9D", "\\uDF9E", "\\uDF9F", "\\uDFA0", "\\uDFA1",
    "\\uDFA2", "\\uDFA3", "\\uDFA4", "\\uDFA5", "\\uDFA6", "\\uDFA7",
    "\\uDFA8", "\\uDFA9", "\\uDFAA", "\\uDFAB", "\\uDFAC", "\\uDFAD",
    "\\uDFAE", "\\uDFAF", "\\uDFB0", "\\uDFB1", "\\uDFB2", "\\uDFB3",
    "\\uDFB4", "\\uDFB5", "\\uDFB6", "\\uDFB7", "\\uDFB8", "\\uDFB9",
    "\\uDFBA", "\\uDFBB", "\\uDFBC", "\\uDFBD", "\\uDFBE", "\\uDFBF",
    "\\uDFC0", "\\uDFC1", "\\uDFC2", "\\uDFC3", "\\uDFC4", "\\uDFC5",
    "\\uDFC6", "\\uDFC7", "\\uDFC8", "\\uDFC9", "\\uDFCA", "\\uDFCB",
    "\\uDFCC", "\\uDFCD", "\\uDFCE", "\\uDFCF", "\\uDFD0", "\\uDFD1",
    "\\uDFD2", "\\uDFD3", "\\uDFD4", "\\uDFD5", "\\uDFD6", "\\uDFD7",
    "\\uDFD8", "\\uDFD9", "\\uDFDA", "\\uDFDB", "\\uDFDC", "\\uDFDD",
    "\\uDFDE", "\\uDFDF", "\\uDFE0", "\\uDFE1", "\\uDFE2", "\\uDFE3",
    "\\uDFE4", "\\uDFE5", "\\uDFE6", "\\uDFE7", "\\uDFE8", "\\uDFE9",
    "\\uDFEA", "\\uDFEB", "\\uDFEC", "\\uDFED", "\\uDFEE", "\\uDFEF",
    "\\uDFF0", "\\uDFF1", "\\uDFF2", "\\uDFF3", "\\uDFF4", "\\uDFF5",
    "\\uDFF6", "\\uDFF7", "\\uDFF8", "\\uDFF9", "\\uDFFA", "\\uDFFB",
    "\\uDFFC", "\\uDFFD", "\\uDFFE", "\\uDFFF" }

\* encodeURIComponent(text) throws URIError from position k on: a trail
\* surrogate that closes no pair, or a lead surrogate that no trail
\* surrogate follows.
RECURSIVE EncodeThrowsFrom(_, _)
EncodeThrowsFrom(text, k) ==
  IF k > Len(text) THEN FALSE
  ELSE IF text[k] \in TrailSurrogates THEN TRUE
  ELSE IF text[k] \in LeadSurrogates
       THEN IF k = Len(text) THEN TRUE
            ELSE IF text[k + 1] \notin TrailSurrogates THEN TRUE
            ELSE EncodeThrowsFrom(text, k + 2)
  ELSE EncodeThrowsFrom(text, k + 1)

\* encodeURIComponent(term) throws URIError.
EncodeThrows(term) == EncodeThrowsFrom(term, 1)

\* The URIError encodeURIComponent throws.
URIError(message) == [isError |-> TRUE, name |-> "URIError", message |-> message]

\* new Error(message)
NewError(message) == [isError |-> TRUE, name |-> "Error", message |-> message]

\* The value a rejected promise (fetch, response.json()) is rejected with: an
\* Error of some class, or a value that is no Error.
Rejection(outcome) ==
  [isError |-> outcome.isError, name |-> outcome.name, message |-> outcome.message]

\* The TypeError mapMealToRecipe throws on a null element.
NullMealError(message) ==
  [isError |-> TRUE, name |-> "TypeError", message |-> message]

\* error instanceof Error ? error.message : "Unexpected error ..."
RejectMessage(outcome) ==
  IF outcome.isError THEN outcome.message ELSE UnexpectedMessage

\* ------------------------------------------------------------------------
\* State
\* ------------------------------------------------------------------------

VARIABLES
  recipes,           \* useState<Recipe[]>([])
  status,            \* useState("idle")
  errorMessage,      \* useState<string | null>(null)
  query,             \* useState("")
  refreshing,        \* useState(false)
  selectedRecipe,    \* useState<Recipe | null>(null)
  initialLoadRef,    \* useRef(true)
  searchTimeoutRef,  \* useRef(null): the id of the last timer armed, 0 for null
  mounted,           \* whether the effects of the first render have run
  timers,            \* the timers armed that have neither fired nor been cleared
  timerSeq,          \* the id setTimeout returned last
  inflight,          \* the fetchAndTrack calls whose promise has not settled
  pendingFinally,    \* the onRefresh calls whose finally callback is queued
  started,           \* history: the trigger of every fetchAndTrack call, in start order
  changes,           \* history: every query-text change
  fired,             \* history: the timers whose callback ran
  lastEvent          \* history: the last handler or continuation that wrote state

vars == <<recipes, status, errorMessage, query, refreshing, selectedRecipe,
          initialLoadRef,
          searchTimeoutRef, mounted, timers, timerSeq, inflight,
          pendingFinally, started, changes, fired, lastEvent>>

Event(kind, id, items, message) ==
  [kind |-> kind, id |-> id, items |-> items, message |-> message,
   cause |-> "none", thrown |-> "none"]

\* The completion of a dispatch: which branch of loadRecipes ended it and,
\* for a failure, the class of the error it rethrew to fetchAndTrack.
Completion(kind, id, items, message, cause, thrown) ==
  [kind |-> kind, id |-> id, items |-> items, message |-> message,
   cause |-> cause, thrown |-> thrown]

\* selectedRecipe?.instructions
Instructions(selected) ==
  IF selected.t = "null" THEN JUndef ELSE selected.recipe.instructions

\* The null selectedRecipe starts as and is closed to.
NoRecipe == [t |-> "null", recipe |-> mapMealToRecipe(MealB)]

Init ==
  /\ recipes = <<>>
  /\ status = "idle"
  /\ errorMessage = JNull
  /\ query = <<>>
  /\ refreshing = FALSE
  /\ selectedRecipe = NoRecipe
  /\ initialLoadRef = TRUE
  /\ searchTimeoutRef = 0
  /\ mounted = FALSE
  /\ timers = {}
  /\ timerSeq = 0
  /\ inflight = {}
  /\ pendingFinally = {}
  /\ started = <<>>
  /\ changes = <<>>
  /\ fired = {}
  /\ lastEvent = Event("render", 0, <<>>, <<>>)

\* The ids of the dispatches in flight.
InFlightIds == {d.id : d \in inflight}

\* ------------------------------------------------------------------------
\* fetchAndTrack / loadRecipes
\* ------------------------------------------------------------------------

\* A start that leaves an error status standing.
StartStateKeepsError ==
  [status |-> IF status = "error" THEN "error" ELSE "loading",
   recipes |-> recipes, errorMessage |-> JNull]

\* The state writes of a dispatch up to its first await:
\* setStatus("loading") in fetchAndTrack, setErrorMessage(null) in loadRecipes.
StartState ==
  [status |-> "loading", recipes |-> recipes, errorMessage |-> JNull]

\* setRecipes(...), the last write of a loadRecipes that returns.
ReturnState(mapped) ==
  [status |-> status, recipes |-> mapped, errorMessage |-> errorMessage]

\* setErrorMessage(message) in the catch of loadRecipes, which rethrows.
ThrowState(message) ==
  [status |-> status, recipes |-> recipes, errorMessage |-> JStr(message)]

\* A continuation of fetchAndTrack that does not write status "idle".
SuccessStateStaysLoading ==
  [status |-> status, recipes |-> recipes, errorMessage |-> errorMessage]

\* setStatus("idle"), after the await of loadRecipes in fetchAndTrack.
SuccessState ==
  [status |-> "idle", recipes |-> recipes, errorMessage |-> errorMessage]

\* A catch of fetchAndTrack that does not write status.
FailureStateKeepsStatus ==
  [status |-> status, recipes |-> recipes, errorMessage |-> errorMessage]

\* setStatus("error"), in the catch of fetchAndTrack.
FailureState ==
  [status |-> "error", recipes |-> recipes, errorMessage |-> errorMessage]

Publish(state) ==
  /\ status' = state.status
  /\ recipes' = state.recipes
  /\ errorMessage' = state.errorMessage

\* A term that keeps the trailing white space.
SearchTermTrimStart(text) == TrimStart(text)

\* query.trim(), the argument of fetchAndTrack in the timer callback, in
\* onRefresh and in the "Try again" handler.
SearchTerm(text) == Trim(text)

\* What a dispatch has to hand before loadRecipes settles.
NoResult == [items |-> <<>>, message |-> <<>>, cause |-> "none", thrown |-> "none"]

\* fetchAndTrack(term) when encodeURIComponent(term) throws inside the try of
\* loadRecipes: no request is issued, the catch writes the message after the
\* writes of the start and throws again, and the catch of fetchAndTrack is
\* queued.
StartThrow(trigger, term, error) ==
  /\ Publish([StartState EXCEPT !.errorMessage = JStr(RejectMessage(error))])
  /\ inflight' = inflight \cup
       {[id |-> Len(started) + 1, trigger |-> trigger, term |-> term,
         stage |-> "threw",
         result |-> [items |-> <<>>, message |-> RejectMessage(error),
                     cause |-> "encode", thrown |-> error.name]]}
  /\ started' = Append(started, trigger)
  /\ lastEvent' = Completion("start", Len(started) + 1, <<>>,
                             RejectMessage(error), "encode", error.name)

\* fetchAndTrack(term) up to the await of fetch: the request is issued,
\* unless the term cannot be encoded.
StartDispatch(trigger, term) ==
  IF EncodeThrows(term)
  THEN \E message \in URIErrorMessages :
         StartThrow(trigger, term, URIError(message))
  ELSE /\ Publish(StartState)
       /\ inflight' = inflight \cup
            {[id |-> Len(started) + 1, trigger |-> trigger, term |-> term,
              stage |-> "fetch", result |-> NoResult]}
       /\ started' = Append(started, trigger)
       /\ lastEvent' = Event("start", Len(started) + 1, <<>>, <<>>)

\* The dispatches whose loadRecipes call is waiting at `stage`: for the
\* response ("fetch") or for its body ("json").
AtStage(stage) == {d \in inflight : d.stage = stage}

\* A promise reaction is queued and has not run: the continuation of
\* fetchAndTrack after loadRecipes settled, or the finally callback of
\* onRefresh.  Timers and input events wait for the queue to drain; the
\* continuations of other dispatches whose promises settled do not.
MicrotasksPending ==
  \/ pendingFinally # {}
  \/ \E d \in inflight : d.stage \in {"returned", "threw"}

\* The reactions queued are those of a call that threw in the handler that
\* made it.  No continuation of another call is in the queue with them, and
\* they run before any response is delivered.
HandlerJobsPending ==
  \/ \E d \in inflight : d.stage = "threw" /\ d.result.cause = "encode"
  \/ \E f \in pendingFinally : f.cause = "encode"

\* A setRecipes that is made only for the dispatch started last (a
\* generation check), and dropped otherwise.
ReturnIfLatest(d, cause, items) ==
  /\ IF d.id = Len(started)
     THEN Publish(ReturnState(MapMeals(items)))
     ELSE UNCHANGED <<recipes, status, errorMessage>>
  /\ inflight' = (inflight \ {d}) \cup
       {[d EXCEPT !.stage = "returned",
                  !.result = [items |-> items, message |-> <<>>,
                              cause |-> cause, thrown |-> "none"]]}
  /\ lastEvent' = Completion("returned", d.id, items, <<>>, cause, "none")

\* loadRecipes returns: setRecipes, and its promise is fulfilled.  The
\* continuation of fetchAndTrack is queued.
Return(d, cause, items) ==
  /\ Publish(ReturnState(MapMeals(items)))
  /\ inflight' = (inflight \ {d}) \cup
       {[d EXCEPT !.stage = "returned",
                  !.result = [items |-> items, message |-> <<>>,
                              cause |-> cause, thrown |-> "none"]]}
  /\ lastEvent' = Completion("returned", d.id, items, <<>>, cause, "none")

\* The catch of loadRecipes: setErrorMessage, and the error is thrown again.
\* The catch of fetchAndTrack is queued.
Throw(d, cause, error) ==
  /\ Publish(ThrowState(RejectMessage(error)))
  /\ inflight' = (inflight \ {d}) \cup
       {[d EXCEPT !.stage = "threw",
                  !.result = [items |-> <<>>, message |-> RejectMessage(error),
                              cause |-> cause, thrown |-> error.name]]}
  /\ lastEvent' = Completion("threw", d.id, <<>>, RejectMessage(error), cause,
                             error.name)

\* The continuation of loadRecipes after `await fetch(...)`.
FetchSettle(d, outcome) ==
  /\ d \in inflight
  /\ d.stage = "fetch"
  /\ ~HandlerJobsPending
  /\ IF outcome.kind = "reject" THEN Throw(d, "transport", Rejection(outcome))
     ELSE IF ~ResponseOk(outcome)
          THEN Throw(d, "status", NewError(HttpErrorMessage(outcome.status)))
     ELSE /\ inflight' = (inflight \ {d}) \cup {[d EXCEPT !.stage = "json"]}
          /\ UNCHANGED <<recipes, status, errorMessage, lastEvent>>
  /\ UNCHANGED <<query, refreshing, selectedRecipe, initialLoadRef,
                 searchTimeoutRef, mounted, timers, timerSeq, pendingFinally,
                 started, changes, fired>>

\* A continuation without the `meals === null` branch: null is then one more
\* value that is no array.
JsonSettleNoSentinel(d, body) ==
  /\ d \in inflight
  /\ d.stage = "json"
  /\ ~HandlerJobsPending
  /\ IF body.kind = "unparseable" THEN Throw(d, "unparseable", Rejection(body))
     ELSE IF body.meals # "array" THEN Throw(d, "shape", NewError(MalformedMessage))
     ELSE IF \E k \in 1..Len(body.items) : body.items[k].t = "null"
          THEN \E message \in NullMealMessages :
                 Throw(d, "element", NullMealError(message))
     ELSE Return(d, "array", body.items)
  /\ UNCHANGED <<query, refreshing, selectedRecipe, initialLoadRef,
                 searchTimeoutRef, mounted, timers, timerSeq, pendingFinally,
                 started, changes, fired>>

\* The continuation of loadRecipes after `await response.json()`.
JsonSettle(d, body) ==
  /\ d \in inflight
  /\ d.stage = "json"
  /\ ~HandlerJobsPending
  /\ IF body.kind = "unparseable" THEN Throw(d, "unparseable", Rejection(body))
     ELSE IF body.meals = "null" THEN Return(d, "null", <<>>)
     ELSE IF body.meals # "array" THEN Throw(d, "shape", NewError(MalformedMessage))
     ELSE IF \E k \in 1..Len(body.items) : body.items[k].t = "null"
          THEN \E message \in NullMealMessages :
                 Throw(d, "element", NullMealError(message))
     ELSE Return(d, "array", body.items)
  /\ UNCHANGED <<query, refreshing, selectedRecipe, initialLoadRef,
                 searchTimeoutRef, mounted, timers, timerSeq, pendingFinally,
                 started, changes, fired>>

\* The continuation of fetchAndTrack after `await loadRecipes(term)`:
\* setStatus("idle"), or setStatus("error") in the catch.  The promise of
\* fetchAndTrack is fulfilled, and onRefresh's finally callback is queued.
Complete(d) ==
  /\ d \in inflight
  /\ d.stage \in {"returned", "threw"}
  /\ Publish(IF d.stage = "returned" THEN SuccessState ELSE FailureState)
  /\ inflight' = inflight \ {d}
  /\ pendingFinally' =
       IF d.trigger = "refresh"
       THEN pendingFinally \cup {[id |-> d.id, cause |-> d.result.cause]}
       ELSE pendingFinally
  /\ lastEvent' =
       Completion(IF d.stage = "returned" THEN "success" ELSE "failure", d.id,
                  d.result.items, d.result.message, d.result.cause,
                  d.result.thrown)
  /\ UNCHANGED <<query, refreshing, selectedRecipe, initialLoadRef,
                 searchTimeoutRef, mounted, timers, timerSeq, started, changes,
                 fired>>

\* .finally(() => setRefreshing(false)) of onRefresh
Finally(f) ==
  /\ f \in pendingFinally
  /\ pendingFinally' = pendingFinally \ {f}
  /\ refreshing' = FALSE
  /\ UNCHANGED <<recipes, status, errorMessage, query, selectedRecipe,
                 initialLoadRef, searchTimeoutRef, mounted, timers, timerSeq,
                 inflight, started, changes, fired, lastEvent>>

\* ------------------------------------------------------------------------
\* Effects and handlers
\* ------------------------------------------------------------------------

\* The user actions taken so far.
UserActions ==
  Len(changes)
    + Cardinality({i \in 1..Len(started) : started[i] \in {"refresh", "retry"}})

\* The length of one clock tick.
Quantum == DebounceDelay \div TicksPerDelay

Min(a, b) == IF a <= b THEN a ELSE b

\* A clearTimeout that clears nothing.
ClearTimeoutNothing(pending, ref) == pending

\* if (searchTimeoutRef.current) { clearTimeout(searchTimeoutRef.current); }
ClearTimeout(pending, ref) == {t \in pending : t.id # ref}

\* The cleanup the debounce effect returned (once it has armed a timer; the
\* ref is null before, and the cleanup would clear nothing).
DebounceCleanup(pending) == ClearTimeout(pending, searchTimeoutRef)

\* A debounce effect without the initialLoadRef guard.
DebounceEffectUnguarded(text, pending) ==
  /\ timers' = {t \in pending : t.id # searchTimeoutRef}
                  \cup {[id |-> timerSeq + 1, query |-> text, elapsed |-> 0]}
  /\ searchTimeoutRef' = timerSeq + 1
  /\ timerSeq' = timerSeq + 1
  /\ UNCHANGED initialLoadRef

\* The body of the debounce effect, run for a render whose query is `text`,
\* with `pending` the timers left by the cleanup.
DebounceEffect(text, pending) ==
  IF initialLoadRef
  THEN /\ initialLoadRef' = FALSE
       /\ timers' = pending
       /\ UNCHANGED <<searchTimeoutRef, timerSeq>>
  ELSE /\ timers' = ClearTimeout(pending, searchTimeoutRef)
                      \cup {[id |-> timerSeq + 1, query |-> text, elapsed |-> 0]}
       /\ searchTimeoutRef' = timerSeq + 1
       /\ timerSeq' = timerSeq + 1
       /\ UNCHANGED initialLoadRef

\* The effects of the first render: fetchAndTrack(""), then the debounce
\* effect, which sees initialLoadRef.current set.
Mount ==
  /\ ~mounted
  /\ mounted' = TRUE
  /\ StartDispatch("initial", <<>>)
  /\ DebounceEffect(query, timers)
  /\ UNCHANGED <<pendingFinally, query, refreshing, selectedRecipe, changes,
                 fired>>

\* A change starts a burst unless the timer armed by the previous change is
\* still pending.
StartsBurst ==
  \/ changes = <<>>
  \/ changes[Len(changes)].timer \notin {t.id : t \in timers}

\* A query change that also empties the list and drops the error.
SetQueryClearsResults(text) ==
  /\ mounted
  /\ ~MicrotasksPending
  /\ text # query
  /\ UserActions < MaxActions
  /\ query' = text
  /\ DebounceEffect(text, DebounceCleanup(timers))
  /\ changes' = Append(changes, [timer |-> searchTimeoutRef', fresh |-> StartsBurst])
  /\ lastEvent' = Event("change", 0, <<>>, <<>>)
  /\ recipes' = <<>>
  /\ errorMessage' = JNull
  /\ UNCHANGED <<pendingFinally, status, refreshing, selectedRecipe, mounted,
                 inflight, started, fired>>

\* onChangeText={setQuery} with a text that differs from the current one:
\* the render with the new query, the cleanup of the previous debounce
\* effect and the effect again.
SetQuery(text) ==
  /\ mounted
  /\ ~MicrotasksPending
  /\ text # query
  /\ UserActions < MaxActions
  /\ query' = text
  /\ DebounceEffect(text, DebounceCleanup(timers))
  /\ changes' = Append(changes, [timer |-> searchTimeoutRef', fresh |-> StartsBurst])
  /\ lastEvent' = Event("change", 0, <<>>, <<>>)
  /\ UNCHANGED <<pendingFinally, recipes, status, errorMessage, refreshing,
                 selectedRecipe, mounted, inflight, started, fired>>

\* Time passes: every pending timer is one tick nearer to its delay.
Tick ==
  /\ \E t \in timers : t.elapsed < DebounceDelay
  /\ ~MicrotasksPending
  /\ timers' = {[t EXCEPT !.elapsed = Min(t.elapsed + Quantum, DebounceDelay)] : t \in timers}
  /\ UNCHANGED <<pendingFinally, recipes, status, errorMessage, query,
                 refreshing, selectedRecipe, initialLoadRef,
                 searchTimeoutRef, mounted, timerSeq, inflight, started,
                 changes, fired, lastEvent>>

\* setTimeout(callback, 450): the callback may run once 450 have elapsed.
TimerDue(t) == t.elapsed >= DebounceDelay

\* The timer callback: fetchAndTrack(query.trim()), with the query of the
\* render that armed the timer.
TimerFire(t) ==
  /\ t \in timers
  /\ ~MicrotasksPending
  /\ TimerDue(t)
  /\ timers' = timers \ {t}
  /\ fired' = fired \cup {[timer |-> t.id, waited |-> t.elapsed]}
  /\ StartDispatch("debounce", SearchTerm(t.query))
  /\ UNCHANGED <<pendingFinally, query, refreshing, selectedRecipe,
                 initialLoadRef, searchTimeoutRef, mounted, timerSeq,
                 changes>>

\* An onRefresh that clears the pending debounce timer first.
RefreshCancelsTimer ==
  /\ mounted
  /\ ~MicrotasksPending
  /\ UserActions < MaxActions
  /\ refreshing' = TRUE
  /\ timers' = ClearTimeout(timers, searchTimeoutRef)
  /\ StartDispatch("refresh", SearchTerm(query))
  /\ UNCHANGED <<pendingFinally, query, selectedRecipe, initialLoadRef,
                 searchTimeoutRef, mounted, timerSeq, changes, fired>>

\* onRefresh: setRefreshing(true); fetchAndTrack(query.trim())
Refresh ==
  /\ mounted
  /\ ~MicrotasksPending
  /\ UserActions < MaxActions
  /\ refreshing' = TRUE
  /\ StartDispatch("refresh", SearchTerm(query))
  /\ UNCHANGED <<pendingFinally, query, selectedRecipe, initialLoadRef,
                 searchTimeoutRef, mounted, timers, timerSeq, changes, fired>>

\* The "Try again" button, rendered when status === "error" && errorMessage.
Retry ==
  /\ mounted
  /\ ~MicrotasksPending
  /\ UserActions < MaxActions
  /\ status = "error"
  /\ Truthy(errorMessage)
  /\ StartDispatch("retry", SearchTerm(query))
  /\ UNCHANGED <<pendingFinally, query, refreshing, selectedRecipe,
                 initialLoadRef, searchTimeoutRef, mounted, timers, timerSeq,
                 changes, fired>>

\* onPress of a card: setSelectedRecipe(item).  The full-screen modal covers
\* the list while a recipe is selected.
SelectRecipe(i) ==
  /\ selectedRecipe.t = "null"
  /\ ~MicrotasksPending
  /\ i \in 1..Len(recipes)
  /\ selectedRecipe' = [t |-> "object", recipe |-> recipes[i]]
  /\ UNCHANGED <<pendingFinally, recipes, status, errorMessage, query,
                 refreshing, initialLoadRef, searchTimeoutRef, mounted,
                 timers, timerSeq, inflight, started, changes, fired,
                 lastEvent>>

\* onRequestClose of the modal and onPress of its close button:
\* setSelectedRecipe(null).
CloseDetail ==
  /\ selectedRecipe.t = "object"
  /\ ~MicrotasksPending
  /\ selectedRecipe' = NoRecipe
  /\ UNCHANGED <<pendingFinally, recipes, status, errorMessage, query,
                 refreshing, initialLoadRef, searchTimeoutRef, mounted,
                 timers, timerSeq, inflight, started, changes, fired,
                 lastEvent>>

\* useMemo(() => ..., [selectedRecipe])
preparationSteps == Segment(Instructions(selectedRecipe))

Next ==
  \/ Mount
  \/ \E text \in QueryTexts : SetQuery(text)
  \/ Tick
  \/ \E t \in timers : TimerFire(t)
  \/ Refresh
  \/ Retry
  \/ \E d \in AtStage("fetch"), outcome \in OverlapFetchOutcomes :
       FetchSettle(d, outcome)
  \/ \E d \in AtStage("json"), body \in OverlapJsonOutcomes :
       JsonSettle(d, body)
  \/ \E d \in inflight : Complete(d)
  \/ \E f \in pendingFinally : Finally(f)

Spec == Init /\ [][Next]_vars

\* The ids a dispatch can have: the initial one and one per user action.
DispatchIds == 1..(MaxActions + 1)

\* How the two promises of a dispatch settle, one outcome per way the
\* dispatch can go on or end: fetch rejects or answers 200; response.json()
\* rejects or resolves with {meals: null}.
SettleFetchOutcomes ==
  {outcome \in FetchOutcomes : outcome.isError \/ outcome.status = 200}

SettleJsonOutcomes ==
  {body \in JsonOutcomes : body.isError \/ body.meals = "null"}

\* A promise of dispatch i settles and its continuation runs: the promise of
\* fetch, of response.json() or of loadRecipes.
Settle(i) ==
  \E d \in inflight :
    /\ d.id = i
    /\ \/ \E outcome \in SettleFetchOutcomes : FetchSettle(d, outcome)
       \/ \E body \in SettleJsonOutcomes : JsonSettle(d, body)
       \/ Complete(d)

LiveNext ==
  \/ Mount
  \/ \E text \in QueryTexts : SetQuery(text)
  \/ Tick
  \/ \E t \in timers : TimerFire(t)
  \/ Refresh
  \/ Retry
  \/ \E i \in DispatchIds : Settle(i)
  \/ \E f \in pendingFinally : Finally(f)

\* Every transport call returns: no promise of a dispatch stays pending for
\* ever, and a queued continuation runs.  The effects of the first render
\* run, time passes and a timer that is due runs its callback; the user is
\* not bound to act.
Fairness ==
  /\ \A i \in DispatchIds : WF_vars(Settle(i))
  /\ WF_vars(\E f \in pendingFinally : Finally(f))
  /\ WF_vars(Mount)
  /\ WF_vars(Tick)
  /\ WF_vars(\E t \in timers : TimerFire(t))

LiveSpec == Init /\ [][LiveNext]_vars /\ Fairness

\* ------------------------------------------------------------------------
\* The gateway alone: the initial dispatch against every answer
\* ------------------------------------------------------------------------

\* The status codes a response can carry.
StatusCodes == 100..599

\* The initial dispatch, settled by a response with any status code and,
\* when the status is a success, by any body.
GatewayNext ==
  \/ Mount
  \/ \E d \in AtStage("fetch"), code \in StatusCodes :
       FetchSettle(d, Response(code))
  \/ \E d \in AtStage("fetch"), outcome \in FetchOutcomes :
       FetchSettle(d, outcome)
  \/ \E d \in AtStage("json"), body \in JsonOutcomes : JsonSettle(d, body)
  \/ \E d \in inflight : Complete(d)

GatewaySpec == Init /\ [][GatewayNext]_vars

\* The values a strIngredientN field can hold: null, absent, empty, blank,
\* a name, a name with white space around it.
IngredientValues ==
  { JNull, JUndef, JStr(<<>>), JStr(<<"\\uFEFF">>), JStr(<<"a">>),
    JStr(<<"\\u2028", "b", " ">>) }

\* The values a strMeasureN field can hold.
MeasureValues ==
  { JNull, JUndef, JStr(<<>>), JStr(<<" ">>), JStr(<<"0">>),
    JStr(<<"\\u000B", "0", " ">>), JStr(<<"1">>),
    JStr(<<" ", "2", "\\u3000">>) }

\* Meals whose positions 1, 2 and 20 vary; the other positions are null.
WireMeals ==
  { [MealA EXCEPT
       !.strIngredient = [Slots(<<>>) EXCEPT ![1] = i1, ![2] = i2,
                                             ![IngredientSlots] = i20],
       !.strMeasure = [Slots(<<>>) EXCEPT ![1] = m1, ![IngredientSlots] = m20]] :
      i1 \in IngredientValues, m1 \in MeasureValues,
      i2 \in {JNull, JStr(<<"c">>)},
      i20 \in IngredientValues, m20 \in MeasureValues }

\* The first load answered with one meal of WireMeals.
NormalizerNext ==
  \/ Mount
  \/ \E d \in AtStage("fetch") : FetchSettle(d, Response(200))
  \/ \E d \in AtStage("json"), meal \in WireMeals :
       JsonSettle(d, Payload("array", <<MealElement(meal)>>))
  \/ \E d \in inflight : Complete(d)

NormalizerSpec == Init /\ [][NormalizerNext]_vars

\* The characters of the instruction texts: a digit, the two marker signs,
\* a space, a form feed, the line break characters and a letter.
InstructionChars == {"1", ".", ")", " ", "\f", "\n", "\r", "M"}

\* Every text of at most MaxTextLen characters, and three longer ones.
InstructionTexts ==
  UNION {[1..n -> InstructionChars] : n \in 0..MaxTextLen}
    \cup { <<"1", ".", " ", "B", "o", "i", "l", " ", "w", "a", "t", "e", "r", "\n", "2", ")", " ", "A", "d", "d", " ", "s", "a", "l", "t", "\n", "\n", "S", "e", "r", "v", "e", " ", "h", "o", "t">>,
           <<"1", ".", " ", "2", ".", " ", "M", "i", "x">>,
           <<" ", "1", ".", " ", "M", "i", "x", "\r", "\n", "\r", "\n", "2", ")", " ", " ", "B", "a", "k", "e", " ">> }

\* strInstructions: null or a text.
InstructionValues == {JNull} \cup {JStr(text) : text \in InstructionTexts}

\* The first load answered with one meal, which is opened and closed.
DetailNext ==
  \/ Mount
  \/ \E d \in AtStage("fetch") : FetchSettle(d, Response(200))
  \/ \E d \in AtStage("json"), instructions \in InstructionValues :
       JsonSettle(d, Payload("array",
                    <<MealElement([MealA EXCEPT !.strInstructions = instructions])>>))
  \/ \E d \in inflight : Complete(d)
  \/ \E i \in 1..Len(recipes) : SelectRecipe(i)
  \/ CloseDetail

DetailSpec == Init /\ [][DetailNext]_vars

\* ------------------------------------------------------------------------
\* Properties
\* ------------------------------------------------------------------------

\* The ids of the pending timers.
PendingIds == {t.id : t \in timers}

\* The ids of the timers whose callback ran.
FiredIds == {f.timer : f \in fired}

\* Change i is the last of its burst: no change followed it while its timer
\* was pending.
LastOfBurst(i) == i = Len(changes) \/ changes[i + 1].fresh

\* The dispatches started so far by the given triggers.
StartedBy(triggers) == {i \in 1..Len(started) : started[i] \in triggers}

\* C1: in a burst of query-text changes, each made while the timer of the
\* previous one is pending, only the timer armed by the last change starts a
\* dispatch, it starts exactly one, and not before 450 time units have passed
\* since that change; the timers armed by the earlier changes of the burst are
\* cleared: they are neither pending nor fired.  At most one timer is pending.
C1_OneDispatchPerBurst ==
  /\ Cardinality(timers) <= 1
  /\ \A f \in fired :
       /\ f.waited >= DebounceDelay
       /\ \E i \in 1..Len(changes) : changes[i].timer = f.timer /\ LastOfBurst(i)
  /\ \A i \in 1..Len(changes) :
       IF LastOfBurst(i)
       THEN (changes[i].timer \in PendingIds) # (changes[i].timer \in FiredIds)
       ELSE changes[i].timer \notin PendingIds \cup FiredIds
  /\ Cardinality(StartedBy({"debounce"})) = Cardinality(FiredIds)
  /\ Cardinality(fired) = Cardinality(FiredIds)

\* A burst of two changes whose last timer has fired and started the one
\* debounce dispatch.
C1_Witness ==
  /\ Len(changes) = 2
  /\ ~changes[2].fresh
  /\ fired = {[timer |-> changes[2].timer, waited |-> DebounceDelay]}
  /\ Cardinality(StartedBy({"debounce"})) = 1

\* The dispatch the last event is about, while it is in flight.
LastDispatch == {d \in inflight : d.id = lastEvent.id}

\* C2: right after a dispatch succeeds, in every interleaving, status is idle,
\* results are exactly that response's normalized records in server order,
\* and lastError is absent.
C2_SuccessPublishes ==
  lastEvent.kind = "success" =>
    /\ status = "idle"
    /\ recipes = MapMeals(lastEvent.items)
    /\ errorMessage = JNull

\* C3: the step in which a dispatch completes as a failure, for whatever
\* reason, leaves status error and lastError equal to that failure's message,
\* and leaves results exactly as they were.
C3_FailureKeepsResults ==
  [][(lastEvent'.kind = "failure" /\ InFlightIds' # InFlightIds) =>
       /\ status' = "error"
       /\ errorMessage' = JStr(lastEvent'.message)
       /\ lastEvent'.message # <<>>
       /\ recipes' = recipes]_vars

\* C4: lastError is present only while status is error.
C4_ErrorOnlyWhileError == status # "error" => errorMessage = JNull

\* C5: while at least one dispatch is in flight, status is loading.
C5_LoadingWhileInFlight == inflight # {} => status = "loading"

\* A dispatch started after dispatch `i` has already completed.
Overtaken(i) == \E b \in (i + 1)..Len(started) : b \notin InFlightIds

\* C6: a completion is applied whatever was started or has completed since
\* its dispatch started: when a dispatch settles or completes after a younger
\* dispatch has already completed, its records or its message are written,
\* and its status is written, all the same.
C6_StaleCompletionApplied ==
  /\ (lastEvent.kind = "returned" /\ Overtaken(lastEvent.id)) =>
       recipes = MapMeals(lastEvent.items)
  /\ (lastEvent.kind = "threw" /\ Overtaken(lastEvent.id)) =>
       errorMessage = JStr(lastEvent.message)
  /\ (lastEvent.kind = "success" /\ Overtaken(lastEvent.id)) =>
       status = "idle"
  /\ (lastEvent.kind = "failure" /\ Overtaken(lastEvent.id)) =>
       status = "error"

\* No dispatch is in flight; the second dispatch failed first (its message is
\* still there), then the first one succeeded: status and results are those
\* of the older dispatch.
C6_Witness ==
  /\ inflight = {}
  /\ Len(started) = 2
  /\ lastEvent.kind = "success"
  /\ lastEvent.id = 1
  /\ status = "idle"
  /\ recipes = MapMeals(<<MealElement(MealB), MealElement(MealA)>>)
  /\ Truthy(errorMessage)

\* C7: once the first render's effects have run and until the query text is
\* changed, no debounce timer is armed and none has fired, exactly one
\* dispatch has been started by the effects, and its term is the empty
\* string; any further dispatch comes from a refresh or a retry.  Before the
\* effects run nothing has been started.
C7_InitialDispatchOnly ==
  /\ ~mounted => started = <<>> /\ timers = {}
  /\ (mounted /\ changes = <<>>) =>
       /\ timers = {}
       /\ fired = {}
       /\ searchTimeoutRef = 0
       /\ StartedBy({"initial"}) = {1}
       /\ StartedBy({"debounce"}) = {}
       /\ \A d \in inflight : d.id = 1 => d.term = <<>>
  /\ Cardinality(StartedBy({"initial"})) <= 1

\* Right after construction: one dispatch, for the empty term, no timer.
C7_Witness ==
  /\ mounted
  /\ changes = <<>>
  /\ started = <<"initial">>
  /\ inflight = {[id |-> 1, trigger |-> "initial", term |-> <<>>,
                  stage |-> "fetch", result |-> NoResult]}
  /\ timers = {}

\* C8: the step that starts a dispatch leaves status = loading, whatever the
\* status was and whatever started the dispatch, and the dispatch is then in
\* flight.
C8_StartSetsLoading ==
  lastEvent.kind = "start" =>
    /\ status = "loading"
    /\ lastEvent.id = Len(started)
    /\ \E d \in inflight : d.id = lastEvent.id

\* A dispatch started by "Try again", that is from status error, and one is
\* still in flight from before.
C8_Witness ==
  /\ lastEvent.kind = "start"
  /\ started[lastEvent.id] = "retry"
  /\ Cardinality(inflight) = 2
  /\ status = "loading"

\* `term` is `text` without its leading and trailing white space.
IsTrimOf(term, text) ==
  \E i \in 0..Len(text), j \in 0..Len(text) :
    /\ i <= j
    /\ term = SubSeq(text, i + 1, j)
    /\ \A k \in 1..i : IsWhitespace(text[k])
    /\ \A k \in (j + 1)..Len(text) : IsWhitespace(text[k])
    /\ term # <<>> => ~IsWhitespace(term[1]) /\ ~IsWhitespace(term[Len(term)])

\* C9 as stated: the term of a dispatch started by the debounce timer or by
\* a refresh is the current query text.
C9_TermIsQueryText ==
  lastEvent.kind = "start" =>
    \A d \in LastDispatch : d.trigger \in {"debounce", "refresh"} => d.term = query

\* C9, amended: the term of a dispatch started by the debounce timer or by a
\* refresh is the current (most recently set) query text without its
\* leading and trailing white space.
C9_TermIsTrimmedQuery ==
  lastEvent.kind = "start" =>
    \A d \in LastDispatch :
      d.trigger \in {"debounce", "refresh"} => IsTrimOf(d.term, query)

\* The debounce timer has started a dispatch for a text with white space on
\* both sides.
C9_Witness ==
  /\ lastEvent.kind = "start"
  /\ query = <<"\f", "a", "\\u00A0">>
  /\ \E d \in LastDispatch : d.trigger = "debounce" /\ d.term = <<"a">>

\* C10: from construction until the initial dispatch completes, status is
\* never idle.
C10_LoadingFromConstruction ==
  (started = <<>> \/ 1 \in InFlightIds) => status # "idle"

\* C11: a response whose meals field is null completes its dispatch as a
\* success: reading the body makes results empty and the gateway returns,
\* the completion makes status idle, and neither step sets an error message
\* (lastError is left as it was).
C11_NullSentinelIsSuccess ==
  [][\A d \in inflight :
       /\ JsonSettle(d, Payload("null", <<>>)) =>
            /\ lastEvent'.kind = "returned"
            /\ recipes' = <<>>
            /\ errorMessage' = errorMessage
       /\ (Complete(d) /\ d.result.cause = "null") =>
            /\ lastEvent'.kind = "success"
            /\ status' = "idle"
            /\ errorMessage' = errorMessage]_vars

\* A dispatch has just completed on {meals: null}: idle, no results, no error.
C11_Witness ==
  /\ lastEvent.kind = "success"
  /\ lastEvent.cause = "null"
  /\ status = "idle"
  /\ recipes = <<>>
  /\ errorMessage = JNull

\* The three decimal digits of a status code.
CodeDigits(code) ==
  <<Digit(code \div 100), Digit((code \div 10) % 10), Digit(code % 10)>>

\* `text` has `part` as a contiguous part.
Contains(text, part) ==
  \E i \in 1..(Len(text) - Len(part) + 1) :
    SubSeq(text, i, i + Len(part) - 1) = part

\* C12: a response with any status code outside 200..299 fails the dispatch
\* with a message that contains the digits of the status code.
C12_HttpErrorNamesStatus ==
  [][\A d \in inflight :
       /\ \A code \in StatusCodes :
            (FetchSettle(d, Response(code)) /\ (code < 200 \/ code > 299)) =>
              /\ lastEvent'.kind = "threw"
              /\ errorMessage'.t = "string"
              /\ Contains(errorMessage'.s, CodeDigits(code))
       /\ (Complete(d) /\ d.result.cause = "status") =>
            /\ lastEvent'.kind = "failure"
            /\ status' = "error"]_vars

\* The dispatch was answered with status 500 and its message says so.
C12_Witness ==
  /\ lastEvent.kind = "failure"
  /\ lastEvent.cause = "status"
  /\ status = "error"
  /\ errorMessage =
       JStr(<<"Unable to reach recipe service (status ", "5", "0", "0", ")">>)

\* The error kind the taxonomy gives a failure by its cause.
TaxonomyKind(cause) ==
  CASE cause = "transport" -> "TransportError"
    [] cause = "status" -> "HttpError"
    [] cause \in {"unparseable", "shape"} -> "MalformedResponseError"
    [] OTHER -> "none"

\* C13: the error a failed dispatch hands to the orchestrator carries its
\* kind: of two dispatches whose gateway has thrown, the errors are of the
\* same class exactly when the taxonomy puts their causes in the same kind
\* (transport; status code; unparseable body or meals of a wrong shape).
C13_ErrorKindsPreserved ==
  \A d1, d2 \in inflight :
    (/\ d1.stage = "threw"
     /\ d2.stage = "threw"
     /\ TaxonomyKind(d1.result.cause) # "none"
     /\ TaxonomyKind(d2.result.cause) # "none") =>
      ((TaxonomyKind(d1.result.cause) = TaxonomyKind(d2.result.cause))
         <=> (d1.result.thrown = d2.result.thrown))

\* The positions of a wire record whose ingredient name is present and not
\* blank.
NamedPositions(meal) ==
  { p \in 1..IngredientSlots :
      /\ meal.strIngredient[p].t = "string"
      /\ \E i \in 1..Len(meal.strIngredient[p].s) :
           ~IsWhitespace(meal.strIngredient[p].s[i]) }

\* The k-th position of a set of positions, in ascending order.
KthPosition(positions, k) ==
  CHOOSE p \in positions : Cardinality({q \in positions : q < p}) = k - 1

\* A measure is prepended when it is present, not blank and not "0".
HasPrefix(measure) ==
  /\ measure.t = "string"
  /\ Trim(measure.s) # <<>>
  /\ Trim(measure.s) # <<"0">>

\* C14: the ingredients of a published record are, in ascending position
\* order, one entry per position of the wire record whose name is present
\* and not blank: "<trimmed measure> <trimmed name>" when the measure is
\* present, not blank and not "0", the trimmed name otherwise; no entry is
\* empty or blank.
C14_IngredientsOfWireRecord ==
  (lastEvent.kind \in {"returned", "success"} /\ lastEvent.cause = "array") =>
    \A i \in 1..Len(lastEvent.items) :
      LET meal == lastEvent.items[i].meal
          named == NamedPositions(meal)
          ingredients == recipes[i].ingredients
      IN  /\ Len(ingredients) = Cardinality(named)
          /\ \A k \in 1..Len(ingredients) :
               LET p == KthPosition(named, k)
                   name == Trim(meal.strIngredient[p].s)
               IN  /\ ingredients[k] =
                        IF HasPrefix(meal.strMeasure[p])
                        THEN Trim(meal.strMeasure[p].s) \o <<" ">> \o name
                        ELSE name
                   /\ Trim(ingredients[k]) # <<>>

\* A published record whose wire record has the measure " 0 " at position 1
\* (dropped), a name without measure at position 2 and a measure with white
\* space around it at position 20.
C14_Witness ==
  /\ lastEvent.kind = "success"
  /\ lastEvent.cause = "array"
  /\ lastEvent.items[1].meal.strMeasure[1] = JStr(<<"\\u000B", "0", " ">>)
  /\ lastEvent.items[1].meal.strIngredient[1] = JStr(<<"\\u2028", "b", " ">>)
  /\ recipes[1].ingredients = << <<"b">>, <<"c">>, <<"2", " ", "a">> >>

\* Array.prototype.join("\n")
RECURSIVE JoinLines(_)
JoinLines(steps) ==
  IF steps = <<>> THEN <<>>
  ELSE IF Len(steps) = 1 THEN Head(steps)
  ELSE Head(steps) \o <<"\n">> \o JoinLines(Tail(steps))

\* C15: segmenting is idempotent: the steps of the selected recipe, joined
\* with newline characters and segmented again, are the same steps in the
\* same order.
C15_SegmentIdempotent ==
  selectedRecipe.t = "object" =>
    Segment(JStr(JoinLines(preparationSteps))) = preparationSteps

\* The text with every carriage return that a line feed follows removed:
\* the line breaks "\r\n" and "\n" are then both "\n".
RECURSIVE UnixLines(_)
UnixLines(text) ==
  IF text = <<>> THEN <<>>
  ELSE IF Head(text) = "\r" /\ Len(text) >= 2 /\ text[2] = "\n"
       THEN UnixLines(Tail(text))
  ELSE <<Head(text)>> \o UnixLines(Tail(text))

\* The length of the marker a piece starts with (digits, then ")" or "."),
\* 0 when it starts with none.
MarkerLength(piece) ==
  LET digits == { n \in 1..(Len(piece) - 1) :
                    /\ \A i \in 1..n : IsDigit(piece[i])
                    /\ piece[n + 1] \in {")", "."} }
  IN  IF digits = {} THEN 0 ELSE (CHOOSE n \in digits : TRUE) + 1

\* A piece without its marker and the white space after it, trimmed.
StepOfPiece(piece) ==
  Trim(IF MarkerLength(piece) = 0 THEN piece
       ELSE TrimStart(SubSeq(piece, MarkerLength(piece) + 1, Len(piece))))

\* The steps of a text, by the words of the claim: the pieces between the
\* line breaks, each without its marker and trimmed, the empty ones dropped.
StepsOfText(text) ==
  LET pieces == Split(UnixLines(text), "\n")
  IN  FilterNonEmpty([i \in 1..Len(pieces) |-> StepOfPiece(pieces[i])])

ExampleText == <<"1", ".", " ", "B", "o", "i", "l", " ", "w", "a", "t", "e", "r", "\n", "2", ")", " ", "A", "d", "d", " ", "s", "a", "l", "t", "\n", "\n", "S", "e", "r", "v", "e", " ", "h", "o", "t">>

\* C16: preparationSteps is empty when the instructions are absent;
\* otherwise it is, in order, the pieces of the text between runs of line
\* breaks, each without one leading marker (digits, then ")" or ".", then
\* white space) and trimmed, the empty ones dropped.  The example text gives
\* "Boil water", "Add salt", "Serve hot", and no step is empty.
C16_SegmentSteps ==
  /\ selectedRecipe.t = "null" => preparationSteps = <<>>
  /\ selectedRecipe.t = "object" =>
       LET instructions == selectedRecipe.recipe.instructions
       IN  /\ instructions.t # "string" => preparationSteps = <<>>
           /\ instructions.t = "string" =>
                preparationSteps = StepsOfText(instructions.s)
           /\ instructions = JStr(ExampleText) =>
                preparationSteps = <<<<"B", "o", "i", "l", " ", "w", "a", "t", "e", "r">>, <<"A", "d", "d", " ", "s", "a", "l", "t">>, <<"S", "e", "r", "v", "e", " ", "h", "o", "t">>>>
           /\ \A k \in 1..Len(preparationSteps) : preparationSteps[k] # <<>>

\* The recipe with the example text is open, with its three steps.
C16_Witness ==
  /\ selectedRecipe.t = "object"
  /\ selectedRecipe.recipe.instructions = JStr(ExampleText)
  /\ Len(preparationSteps) = 3
  /\ preparationSteps[2] = <<"A", "d", "d", " ", "s", "a", "l", "t">>

\* C17: every record published in recipes has a non-empty id and a
\* non-empty name.
C17_RecordsHaveIdAndName ==
  \A i \in 1..Len(recipes) :
    /\ recipes[i].id.t = "string" /\ recipes[i].id.s # <<>>
    /\ recipes[i].name.t = "string" /\ recipes[i].name.s # <<>>

\* C18: while status is "loading" some dispatch is in flight; when every
\* started dispatch has completed, status is "idle" or "error".
C18_LoadingHasDispatch ==
  /\ status = "loading" => inflight # {}
  /\ inflight = {} => status \in {"idle", "error"}

\* Two dispatches started and both completed, the last one by failing
\* without a request, on a term that cannot be encoded: nothing is in flight
\* and status is "error".
C18_Witness ==
  /\ Len(started) = 2
  /\ inflight = {}
  /\ status = "error"
  /\ lastEvent.kind = "failure"
  /\ lastEvent.cause = "encode"

\* C19: a pull to refresh while a debounce timer is pending starts its
\* dispatch at once and leaves the timer as it is: neither cleared nor armed
\* again, its elapsed time and its query text unchanged.
C19_RefreshLeavesTimer ==
  [][(Refresh /\ timers # {}) =>
       /\ timers' = timers
       /\ searchTimeoutRef' = searchTimeoutRef
       /\ timerSeq' = timerSeq
       /\ \E d \in inflight' \ inflight :
            /\ d.trigger = "refresh"
            /\ d.id = Len(started')
            /\ started'[d.id] = "refresh"]_vars

\* The text was changed to "a", then the list was pulled (the refresh term
\* is the new text), then the timer of the change fired: the refresh
\* dispatch and the debounce dispatch are both in flight.
C19_Witness ==
  /\ Len(changes) = 1
  /\ \E d1 \in inflight, d2 \in inflight :
       /\ d1.trigger = "refresh"
       /\ d1.term = <<"a">>
       /\ d2.trigger = "debounce"
       /\ d1.id < d2.id

\* C20: a change of the query text, with the clearing and arming of the
\* debounce timer it causes, leaves status, recipes and errorMessage as they
\* are; the three are written only when a dispatch starts or completes.
C20_QueryChangeKeepsState ==
  [][/\ (query' # query) =>
          /\ UNCHANGED <<status, recipes, errorMessage>>
          /\ searchTimeoutRef' # searchTimeoutRef
          /\ searchTimeoutRef' \in {t.id : t \in timers'}
     /\ (<<status, recipes, errorMessage>>' # <<status, recipes, errorMessage>>) =>
          \/ Len(started') > Len(started)
          \/ inflight' # inflight]_vars

\* The text was changed after a dispatch published its records: its timer
\* is pending, nothing is in flight, and the list still shows the records
\* found for the earlier text.
C20_Witness ==
  /\ lastEvent.kind = "change"
  /\ timers # {}
  /\ inflight = {}
  /\ status = "idle"
  /\ recipes # <<>>

\* C21: when every transport call returns and finitely many dispatches
\* start, eventually and for ever after no dispatch is in flight and status
\* is "idle" or "error": status does not stay "loading", in whatever order
\* the dispatches complete.
C21_LoadingEnds ==
  <>[](inflight = {} /\ status \in {"idle", "error"})

\* Three dispatches started and all completed, the first one last.
C21_Witness ==
  /\ Len(started) = 3
  /\ inflight = {}
  /\ lastEvent.kind \in {"success", "failure"}
  /\ lastEvent.id = 1
  /\ status \in {"idle", "error"}

====
